---- MODULE Spec2Model ----
(***************************************************************************)
(* Haswell audio DSP hardware interface (sound/soc/sof/intel/hsw.c).       *)
(*                                                                         *)
(* A 32-bit register is the set of its set bit positions (a subset of      *)
(* 0..31): a mask is a set, "a & m" is intersection, "a | b" is union.     *)
(* Several specifications share the variables; each one drives one part    *)
(* of the driver and leaves the rest of the state alone:                   *)
(*   Spec       bring-up (hsw_probe, hsw_set_dsp_D0, hsw_reset), hsw_run,  *)
(*              hsw_remove                                                 *)
(*   SpecReply  hsw_get_reply                                              *)
(*   SpecIrq    hsw_irq_handler, hsw_irq_thread, hsw_cmd_done, the DSP     *)
(*   SpecBlock  hsw_block_write, hsw_block_read                            *)
(*   SpecWin    hsw_fw_ready, hsw_get_windows                              *)
(***************************************************************************)
EXTENDS Integers, Sequences, FiniteSets, TLC

VARIABLES
    \* ---- register files of the two mapped regions
    shim,           \* registers reached through bar[HSW_DSP_BAR]
    pci,            \* registers reached through bar[HSW_PCI_BAR]
    \* ---- bring-up (hsw_probe / hsw_set_dsp_D0 / hsw_reset / hsw_run / hsw_remove)
    pc,             \* position of the attaching/detaching thread
    ret,            \* <<value hsw_probe returned>>, <<>> while it runs
    mapped,         \* per bar: is the region currently mapped
    maps,           \* per bar: number of successful ioremap calls
    unmaps,         \* per bar: number of iounmap calls on a mapped region
    badunmaps,      \* per bar: number of iounmap calls on a region not mapped
    irq_reg,        \* is the threaded interrupt handler registered
    tries,          \* hsw_set_dsp_D0: local "tries"
    samples,        \* hsw_set_dsp_D0: number of reads of PCI_PMCS in the loop
    sleeps,         \* hsw_set_dsp_D0: number of msleep(20) calls
    d0_ret,         \* <<value hsw_set_dsp_D0 returned>>, <<>> before
    steps,          \* labels of the statements run after the polling loop
    reset_caller,   \* who called hsw_reset: "d0", "op" or "none"
    csr_entry,      \* SHIM_CSR as it was when hsw_reset was entered
    op_ret,         \* value the last hsw_reset / hsw_run returned
    boxes,          \* dsp_box, host_box, stream_box, dsp_oops_offset
    \* ---- hsw_get_reply
    mbox,           \* bytes of the mapped region at host_box.offset
    msg,            \* the caller's struct snd_sof_ipc_msg
    gr,             \* hsw_get_reply: position, locals, result
    \* ---- hsw_block_write / hsw_block_read
    mem,            \* bytes of the mapped region of mmio_bar
    bw,             \* the block copy: arguments, position, bytes read back
    \* ---- hsw_fw_ready / hsw_get_windows
    win,            \* window table, position and locals of hsw_get_windows
    \* ---- interrupt path
    hw_lock,        \* holder of sdev->hw_lock ("free" when not held)
    wake,           \* the interrupt thread was woken and has not run yet
    ih,             \* hsw_irq_handler: position, isr, ret, what it did
    th,             \* hsw_irq_thread: position, ipcx, ipcd, hdr
    cd,             \* hsw_cmd_done called by the message consumer
    snd,            \* hsw_is_ready / hsw_send_msg called by the sender
    dsp,            \* what the DSP has done so far
    calls           \* calls the running interrupt thread made to collaborators

bringVars == <<pc, ret, mapped, maps, unmaps, badunmaps, irq_reg, tries,
               samples, sleeps, d0_ret, steps, reset_caller, csr_entry,
               op_ret>>
regVars == <<shim, pci>>
\* everything the bring-up thread never touches
replyVars == <<mbox, msg, gr>>
blockVars == <<mem, bw>>
winVars == <<win>>
irqVars == <<hw_lock, wake, ih, th, cd, snd, dsp, calls>>
notBring == <<replyVars, blockVars, winVars, irqVars>>
vars == <<regVars, bringVars, boxes, replyVars, blockVars, winVars, irqVars>>

----------------------------------------------------------------------------
(* Bit arithmetic on registers-as-bit-sets *)

RECURSIVE Pow2(_)
Pow2(n) == IF n = 0 THEN 1 ELSE 2 * Pow2(n - 1)

\* the bits of a number below 2^31
Bits(n) == {i \in 0..30 : (n \div Pow2(i)) % 2 = 1}

RECURSIVE Val(_)
\* the number a bit set below 2^31 stands for
Val(b) == IF b = {} THEN 0
          ELSE LET i == CHOOSE x \in b : TRUE IN Pow2(i) + Val(b \ {i})

\* snd_sof_dsp_update_bits_unlocked: new = (old & ~mask) | (value & mask)
UpdateBits(old, mask, value) == (old \ mask) \cup (value \cap mask)

----------------------------------------------------------------------------
(* Register bits (shim.h) and constants of hsw.c *)

HSW_DSP_BAR == 0
HSW_PCI_BAR == 1
MBOX_OFFSET == 516096      \* 0x7E000
MBOX_SIZE == 4096          \* 0x1000
D0Tries == 10              \* int tries = 10
ENODEV == 19
EINVAL == 22

SHIM_CSR_RST == {1}
SHIM_CSR_SBCS1 == {3}
SHIM_CSR_DCS_MASK == {4, 5, 6}
SHIM_CSR_DCS4 == {6}                 \* SHIM_CSR_DCS(4) = 4 << 4
SHIM_CSR_STALL == {10}
SHIM_CSR_S1IOCS == {23}
SHIM_CSR_LPCS == {31}
SHIM_CLKCTL_MASK == {24, 25}
SHIM_CLKCTL_DCPLCG == {18}
SHIM_CLKCTL_SCOE0 == {16}
SHIM_CSR2_SDFD_SSP1 == {2}
SHIM_HMDC_HDDA_E0_ALLCH == {0, 1, 2, 3}
SHIM_HMDC_HDDA_E1_ALLCH == {8, 9, 10, 11}
SHIM_ISRX_DONE == {0}
SHIM_ISRX_BUSY == {1}
SHIM_IMRX_DONE == {0}
SHIM_IMRX_BUSY == {1}
SHIM_IMRD_DONE == {0}
SHIM_IMRD_BUSY == {1}
SHIM_IMRD_SSP0 == {16}
SHIM_IMRD_DMAC == {21, 22}
SHIM_IPCX_DONE == {30}
SHIM_IPCX_BUSY == {31}
SHIM_IPCD_DONE == {30}
SHIM_IPCD_BUSY == {31}
PCI_VDRTCL0_D3PGD == {0}
PCI_VDRTCL0_SRAMPGE_MASK == 2..31    \* DSRAMPGE_MASK | ISRAMPGE_MASK
PCI_VDRTCL2_DCLCGE == {1}
PCI_VDRTCL2_DTCGE == {10}
PCI_VDRTCL2_APLLSE_MASK == {31}
PCI_PMCS_PS_MASK == {0, 1}

ShimRegs == {"CSR", "CLKCTL", "CSR2", "HMDC", "ISRX", "IMRX", "IMRD",
             "IPCX", "IPCD", "R80", "RE0"}
PciRegs == {"VDRTCTL0", "VDRTCTL2", "PMCS"}
Bars == {HSW_DSP_BAR, HSW_PCI_BAR}


----------------------------------------------------------------------------
(* Device context helpers *)

NoBox == [offset |-> 0, size |-> 0]

\* no core-control operation has returned yet
NoRet == [op |-> "none", val |-> 0]

\* snd_sof_dsp_mailbox_init(sdev, dspbox, dspbox_size, hostbox, hostbox_size)
MailboxInit(b, dspbox, dspbox_size, hostbox, hostbox_size) ==
    [b EXCEPT !.dsp_box = [offset |-> dspbox, size |-> dspbox_size],
              !.host_box = [offset |-> hostbox, size |-> hostbox_size]]

\* the device context as the framework allocates it (zeroed)
Boxes0 == [dsp_box |-> NoBox, host_box |-> NoBox, stream_box |-> NoBox,
           dsp_oops_offset |-> 0]

\* values a register may hold when the driver attaches
CsrInitBits == SHIM_CSR_RST \cup SHIM_CSR_STALL \cup SHIM_CSR_SBCS1 \cup {8}
\* the status register follows the two doorbells: DONE of the outbound
\* command register and BUSY of the inbound one
Latch(sh) ==
    [sh EXCEPT !["ISRX"] =
        (@ \ (SHIM_ISRX_DONE \cup SHIM_ISRX_BUSY))
        \cup (IF SHIM_IPCX_DONE \subseteq sh["IPCX"] THEN SHIM_ISRX_DONE ELSE {})
        \cup (IF SHIM_IPCD_BUSY \subseteq sh["IPCD"] THEN SHIM_ISRX_BUSY ELSE {})]

ShimAllSet == [r \in ShimRegs |->
                 CASE r = "IMRX" -> SHIM_IMRX_DONE \cup SHIM_IMRX_BUSY \cup {2}
                   [] r = "IMRD" -> SHIM_IMRD_DONE \cup SHIM_IMRD_BUSY \cup
                                    SHIM_IMRD_SSP0 \cup SHIM_IMRD_DMAC \cup {2}
                   [] r = "ISRX" -> SHIM_ISRX_DONE \cup SHIM_ISRX_BUSY
                   [] r = "IPCX" -> SHIM_IPCX_DONE \cup {4}
                   [] r = "IPCD" -> SHIM_IPCD_BUSY \cup {4}
                   [] r = "HMDC" -> {0, 8, 16}
                   [] r = "CLKCTL" -> {17}
                   [] r = "R80" -> {0}
                   [] r = "RE0" -> {0}
                   [] OTHER -> {}]
ShimAllClear == [r \in ShimRegs |-> {}]
PciAllSet == [r \in PciRegs |->
                CASE r = "VDRTCTL0" -> {1, 2, 12}
                  [] r = "VDRTCTL2" -> {1, 10, 31}
                  [] r = "PMCS" -> {0, 1, 8}]
PciAllClear == [r \in PciRegs |-> {}]

BringInit ==
    /\ pc = "p_lpe_res"
    /\ ret = <<>>
    /\ mapped = [b \in Bars |-> FALSE]
    /\ maps = [b \in Bars |-> 0]
    /\ unmaps = [b \in Bars |-> 0]
    /\ badunmaps = [b \in Bars |-> 0]
    /\ irq_reg = FALSE
    /\ tries = D0Tries
    /\ samples = 0
    /\ sleeps = 0
    /\ d0_ret = <<>>
    /\ steps = {}
    /\ reset_caller = "none"
    /\ csr_entry = {}
    /\ op_ret = NoRet

\* the parts of the state a specification does not drive
ReplyIdle ==
    /\ mbox = <<>>
    /\ msg = [msg_data |-> "NULL", reply_size |-> 0, reply_data |-> <<>>]
    /\ gr = [pc |-> "idle"]
BlockIdle ==
    /\ mem = <<>>
    /\ bw = [pc |-> "idle"]
WinIdle == win = [pc |-> "idle"]
IrqIdle ==
    /\ hw_lock = "free"
    /\ wake = FALSE
    /\ ih = [pc |-> "idle"]
    /\ th = [pc |-> "idle"]
    /\ cd = [pc |-> "idle"]
    /\ snd = [pc |-> "idle"]
    /\ dsp = [pc |-> "idle"]
    /\ calls = <<>>

Init ==
    /\ BringInit
    /\ ReplyIdle /\ BlockIdle /\ WinIdle /\ IrqIdle
    /\ \E csr \in SUBSET CsrInitBits, hot \in BOOLEAN :
         /\ shim = [(IF hot THEN ShimAllSet ELSE ShimAllClear) EXCEPT !["CSR"] = csr]
         /\ pci = IF hot THEN PciAllSet ELSE PciAllClear
    /\ boxes = Boxes0

----------------------------------------------------------------------------
(* hsw_probe *)

\* iounmap(sdev->bar[b])
Iounmap(b) ==
    /\ mapped' = [mapped EXCEPT ![b] = FALSE]
    /\ unmaps' = [unmaps EXCEPT ![b] = @ + (IF mapped[b] THEN 1 ELSE 0)]
    /\ badunmaps' = [badunmaps EXCEPT ![b] = @ + (IF mapped[b] THEN 0 ELSE 1)]

\* ioremap(base, size) for bar b succeeded
Ioremap(b) ==
    /\ mapped' = [mapped EXCEPT ![b] = TRUE]
    /\ maps' = [maps EXCEPT ![b] = @ + 1]

\* platform_get_resource(.., resindex_lpe_base); NULL: return -EINVAL
ProbeLpeRes ==
    /\ pc = "p_lpe_res"
    /\ \E ok \in BOOLEAN :
         IF ok THEN pc' = "p_map_dsp" /\ ret' = ret
         ELSE pc' = "failed" /\ ret' = <<-EINVAL>>
    /\ UNCHANGED <<notBring, regVars, boxes, mapped, maps, unmaps, badunmaps, irq_reg,
                   tries, samples, sleeps, d0_ret, steps, reset_caller,
                   csr_entry, op_ret>>

\* sdev->bar[HSW_DSP_BAR] = ioremap(..); NULL: return -ENODEV
ProbeMapDsp ==
    /\ pc = "p_map_dsp"
    /\ \E ok \in BOOLEAN :
         IF ok THEN /\ Ioremap(HSW_DSP_BAR)
                    /\ pc' = "p_pci_res" /\ ret' = ret
         ELSE /\ pc' = "failed" /\ ret' = <<-ENODEV>>
              /\ UNCHANGED <<mapped, maps>>
    /\ UNCHANGED <<notBring, regVars, boxes, unmaps, badunmaps, irq_reg,
                   tries, samples, sleeps, d0_ret, steps, reset_caller,
                   csr_entry, op_ret>>

\* platform_get_resource(.., resindex_pcicfg_base); NULL: goto pci_err
ProbePciRes ==
    /\ pc = "p_pci_res"
    /\ \E ok \in BOOLEAN :
         IF ok THEN pc' = "p_map_pci" /\ ret' = ret
         ELSE pc' = "p_pci_err" /\ ret' = <<-ENODEV>>
    /\ UNCHANGED <<notBring, regVars, boxes, mapped, maps, unmaps, badunmaps, irq_reg,
                   tries, samples, sleeps, d0_ret, steps, reset_caller,
                   csr_entry, op_ret>>

\* sdev->bar[HSW_PCI_BAR] = ioremap(..); NULL: goto pci_err
ProbeMapPci ==
    /\ pc = "p_map_pci"
    /\ \E ok \in BOOLEAN :
         IF ok THEN /\ Ioremap(HSW_PCI_BAR)
                    /\ pc' = "p_get_irq" /\ ret' = ret
         ELSE /\ pc' = "p_pci_err" /\ ret' = <<-ENODEV>>
              /\ UNCHANGED <<mapped, maps>>
    /\ UNCHANGED <<notBring, regVars, boxes, unmaps, badunmaps, irq_reg,
                   tries, samples, sleeps, d0_ret, steps, reset_caller,
                   csr_entry, op_ret>>

\* sdev->ipc_irq = platform_get_irq(..); negative: goto irq_err
ProbeGetIrq ==
    /\ pc = "p_get_irq"
    /\ \E ok \in BOOLEAN :
         IF ok THEN pc' = "p_req_irq" /\ ret' = ret
         ELSE pc' = "p_irq_err" /\ ret' = <<-ENODEV>>
    /\ UNCHANGED <<notBring, regVars, boxes, mapped, maps, unmaps, badunmaps, irq_reg,
                   tries, samples, sleeps, d0_ret, steps, reset_caller,
                   csr_entry, op_ret>>

\* request_threaded_irq(..); negative: goto irq_err; else call hsw_set_dsp_D0
ProbeRequestIrq ==
    /\ pc = "p_req_irq"
    /\ \E ok \in BOOLEAN :
         IF ok THEN pc' = "d0_gate_off" /\ ret' = ret /\ irq_reg' = TRUE
         ELSE pc' = "p_irq_err" /\ ret' = <<-EINVAL>> /\ irq_reg' = irq_reg
    /\ UNCHANGED <<notBring, regVars, boxes, mapped, maps, unmaps, badunmaps,
                   tries, samples, sleeps, d0_ret, steps, reset_caller,
                   csr_entry, op_ret>>

\* ret = hsw_set_dsp_D0(sdev); if (ret < 0) return ret;
ProbeD0Ret ==
    /\ pc = "p_d0_ret"
    /\ IF d0_ret[1] < 0 THEN pc' = "failed" /\ ret' = d0_ret
       ELSE pc' = "p_dma" /\ ret' = ret
    /\ UNCHANGED <<notBring, regVars, boxes, mapped, maps, unmaps, badunmaps, irq_reg,
                   tries, samples, sleeps, d0_ret, steps, reset_caller,
                   csr_entry, op_ret>>

\* dma_coerce_mask_and_coherent(..); negative: return ret;
\* else set the default mailbox and return
ProbeDma ==
    /\ pc = "p_dma"
    /\ \E ok \in BOOLEAN :
         IF ok THEN /\ pc' = "attached" /\ ret' = <<0>>
                    /\ boxes' = MailboxInit(boxes, MBOX_OFFSET, MBOX_SIZE, 0, 0)
         ELSE pc' = "failed" /\ ret' = <<-EINVAL>> /\ boxes' = boxes
    /\ UNCHANGED <<notBring, regVars, mapped, maps, unmaps, badunmaps, irq_reg,
                   tries, samples, sleeps, d0_ret, steps, reset_caller,
                   csr_entry, op_ret>>

\* irq_err: iounmap(sdev->bar[HSW_DSP_BAR]); falls through to pci_err
ProbeIrqErr ==
    /\ pc = "p_irq_err"
    /\ Iounmap(HSW_DSP_BAR)
    /\ pc' = "p_pci_err"
    /\ UNCHANGED <<notBring, regVars, boxes, ret, maps, irq_reg,
                   tries, samples, sleeps, d0_ret, steps, reset_caller,
                   csr_entry, op_ret>>

\* pci_err: iounmap(sdev->bar[HSW_PCI_BAR]); return ret;
ProbePciErr ==
    /\ pc = "p_pci_err"
    /\ Iounmap(HSW_PCI_BAR)
    /\ pc' = "failed"
    /\ UNCHANGED <<notBring, regVars, boxes, ret, maps, irq_reg,
                   tries, samples, sleeps, d0_ret, steps, reset_caller,
                   csr_entry, op_ret>>

Probe ==
    \/ ProbeLpeRes \/ ProbeMapDsp \/ ProbePciRes \/ ProbeMapPci
    \/ ProbeGetIrq \/ ProbeRequestIrq \/ ProbeD0Ret \/ ProbeDma
    \/ ProbeIrqErr \/ ProbePciErr


----------------------------------------------------------------------------
(* hsw_set_dsp_D0 *)

\* one snd_sof_dsp_update_bits[_unlocked] on a register of the PCI bar
D0PciStep(from, to, reg, mask, value) ==
    /\ pc = from
    /\ pci' = [pci EXCEPT ![reg] = UpdateBits(@, mask, value)]
    /\ pc' = to
    /\ UNCHANGED shim

\* one snd_sof_dsp_update_bits[_unlocked] on a register of the DSP bar
D0ShimStep(from, to, reg, mask, value) ==
    /\ pc = from
    /\ shim' = [shim EXCEPT ![reg] = UpdateBits(@, mask, value)]
    /\ pc' = to
    /\ UNCHANGED pci

\* one snd_sof_dsp_write on a register of the DSP bar
D0ShimWrite(from, to, reg, value) ==
    /\ pc = from
    /\ shim' = Latch([shim EXCEPT ![reg] = value])
    /\ pc' = to
    /\ UNCHANGED pci

\* what a statement before the "finish" label leaves alone
D0PreFrame ==
    UNCHANGED <<notBring, boxes, ret, mapped, maps, unmaps, badunmaps, irq_reg,
                tries, samples, sleeps, d0_ret, steps, reset_caller,
                csr_entry, op_ret>>

\* a statement after the "finish" label: it is recorded in steps
D0PostFrame(label) ==
    /\ steps' = steps \cup {label}
    /\ UNCHANGED <<notBring, boxes, ret, mapped, maps, unmaps, badunmaps,
                   irq_reg, tries, samples, sleeps, d0_ret, reset_caller,
                   csr_entry, op_ret>>

\* Disable core clock gating (VDRTCTL2.DCLCGE = 0)
D0GateOff ==
    /\ D0PciStep("d0_gate_off", "d0_d3pgd", "VDRTCTL2",
                 PCI_VDRTCL2_DCLCGE \cup PCI_VDRTCL2_DTCGE, {})
    /\ D0PreFrame

\* Disable D3PG (VDRTCTL0.D3PGD = 1)
D0D3pgd ==
    /\ D0PciStep("d0_d3pgd", "d0_set_ps", "VDRTCTL0",
                 PCI_VDRTCL0_D3PGD, PCI_VDRTCL0_D3PGD)
    /\ D0PreFrame

\* Set D0 state
D0SetPs ==
    /\ D0PciStep("d0_set_ps", "d0_poll", "PMCS", PCI_PMCS_PS_MASK, {})
    /\ D0PreFrame

\* the loop written "while (--tries)": the last sample is never taken
D0PollPreDecrement ==
    /\ pc = "d0_poll"
    /\ tries' = tries - 1
    /\ IF tries = 1
       THEN /\ pc' = "p_d0_ret"
            /\ d0_ret' = <<-ENODEV>>
            /\ UNCHANGED <<pci, samples>>
       ELSE /\ samples' = samples + 1
            /\ d0_ret' = d0_ret
            /\ \E ps \in SUBSET PCI_PMCS_PS_MASK :
                 /\ pci' = [pci EXCEPT !["PMCS"] =
                              UpdateBits(@, PCI_PMCS_PS_MASK, ps)]
                 /\ pc' = IF ps = {} THEN "d0_clksel" ELSE "d0_sleep"
    /\ UNCHANGED <<notBring, shim, boxes, ret, mapped, maps, unmaps, badunmaps,
                   irq_reg, sleeps, steps, reset_caller, csr_entry, op_ret>>

\* while (tries--) { reg = readl(PMCS) & PS_MASK; if (reg == 0) goto finish;
\* the device answers the read with any power state; loop exhausted:
\* return -ENODEV
D0Poll ==
    /\ pc = "d0_poll"
    /\ tries' = tries - 1
    /\ IF tries = 0
       THEN /\ pc' = "p_d0_ret"
            /\ d0_ret' = <<-ENODEV>>
            /\ UNCHANGED <<pci, samples>>
       ELSE /\ samples' = samples + 1
            /\ d0_ret' = d0_ret
            /\ \E ps \in SUBSET PCI_PMCS_PS_MASK :
                 /\ pci' = [pci EXCEPT !["PMCS"] =
                              UpdateBits(@, PCI_PMCS_PS_MASK, ps)]
                 /\ pc' = IF ps = {} THEN "d0_clksel" ELSE "d0_sleep"
    /\ UNCHANGED <<notBring, shim, boxes, ret, mapped, maps, unmaps, badunmaps,
                   irq_reg, sleeps, steps, reset_caller, csr_entry, op_ret>>

\* msleep(20);
D0Sleep ==
    /\ pc = "d0_sleep"
    /\ sleeps' = sleeps + 1
    /\ pc' = "d0_poll"
    /\ UNCHANGED <<notBring, regVars, boxes, ret, mapped, maps, unmaps,
                   badunmaps, irq_reg, tries, samples, d0_ret, steps,
                   reset_caller, csr_entry, op_ret>>

\* finish: select SSP1 19.2MHz base clock, SSP clock 0, turn off LPC
D0ClkSel ==
    /\ D0ShimStep("d0_clksel", "d0_stall", "CSR",
                  SHIM_CSR_S1IOCS \cup SHIM_CSR_SBCS1 \cup SHIM_CSR_LPCS, {})
    /\ D0PostFrame("clksel")

\* stall DSP core, set clk to 192/96Mhz
D0Stall ==
    /\ D0ShimStep("d0_stall", "d0_clkctl", "CSR",
                  SHIM_CSR_STALL \cup SHIM_CSR_DCS_MASK,
                  SHIM_CSR_STALL \cup SHIM_CSR_DCS4)
    /\ D0PostFrame("stall")

\* Set 24MHz MCLK, prevent local clock gating, enable SSP0 clock;
\* then call hsw_reset(sdev)
D0ClkCtl ==
    /\ D0ShimStep("d0_clkctl", "rst_assert", "CLKCTL",
                  SHIM_CLKCTL_MASK \cup SHIM_CLKCTL_DCPLCG \cup SHIM_CLKCTL_SCOE0,
                  SHIM_CLKCTL_MASK \cup SHIM_CLKCTL_DCPLCG \cup SHIM_CLKCTL_SCOE0)
    /\ steps' = steps \cup {"clkctl"}
    /\ reset_caller' = "d0"
    /\ UNCHANGED <<notBring, boxes, ret, mapped, maps, unmaps, badunmaps,
                   irq_reg, tries, samples, sleeps, d0_ret, csr_entry, op_ret>>

\* Enable core clock gating (VDRTCTL2.DCLCGE = 1), delay 50 us
D0GateOn ==
    /\ D0PciStep("d0_gate_on", "d0_pll", "VDRTCTL2",
                 PCI_VDRTCL2_DCLCGE \cup PCI_VDRTCL2_DTCGE,
                 PCI_VDRTCL2_DCLCGE \cup PCI_VDRTCL2_DTCGE)
    /\ D0PostFrame("gate_on")

\* switch on audio PLL
D0Pll ==
    /\ D0PciStep("d0_pll", "d0_pg", "VDRTCTL2", PCI_VDRTCL2_APLLSE_MASK, {})
    /\ D0PostFrame("pll")

\* set default power gating control
D0Pg ==
    /\ D0PciStep("d0_pg", "d0_csr2", "VDRTCTL0", PCI_VDRTCL0_SRAMPGE_MASK, {})
    /\ D0PostFrame("pg")

\* disable DMA finish function for SSP0 & SSP1
D0Csr2 ==
    /\ D0ShimStep("d0_csr2", "d0_hmdc", "CSR2",
                  SHIM_CSR2_SDFD_SSP1, SHIM_CSR2_SDFD_SSP1)
    /\ D0PostFrame("csr2")

\* set on-demond mode on engine 0,1 for all channels
D0Hmdc ==
    /\ D0ShimStep("d0_hmdc", "d0_imrx", "HMDC",
                  SHIM_HMDC_HDDA_E0_ALLCH \cup SHIM_HMDC_HDDA_E1_ALLCH,
                  SHIM_HMDC_HDDA_E0_ALLCH \cup SHIM_HMDC_HDDA_E1_ALLCH)
    /\ D0PostFrame("hmdc")

\* Enable Interrupt from both sides: IMRX
D0Imrx ==
    /\ D0ShimStep("d0_imrx", "d0_imrd", "IMRX",
                  SHIM_IMRX_BUSY \cup SHIM_IMRX_DONE, {})
    /\ D0PostFrame("imrx")

\* the DSP-side unmask without the DMA controller bits
D0ImrdLeavesDmac ==
    /\ D0ShimStep("d0_imrd", "d0_ipcx", "IMRD",
                  SHIM_IMRD_DONE \cup SHIM_IMRD_BUSY \cup SHIM_IMRD_SSP0, {})
    /\ D0PostFrame("imrd")

\* Enable Interrupt from both sides: IMRD
D0Imrd ==
    /\ D0ShimStep("d0_imrd", "d0_ipcx", "IMRD",
                  SHIM_IMRD_DONE \cup SHIM_IMRD_BUSY \cup SHIM_IMRD_SSP0
                    \cup SHIM_IMRD_DMAC, {})
    /\ D0PostFrame("imrd")

\* clear IPC registers
D0Ipcx ==
    /\ D0ShimWrite("d0_ipcx", "d0_ipcd", "IPCX", {})
    /\ D0PostFrame("ipcx")

\* the inbound doorbell cleared by an update of BUSY and DONE only
D0IpcdClearsFlagsOnly ==
    /\ D0ShimStep("d0_ipcd", "d0_r80", "IPCD",
                  SHIM_IPCD_BUSY \cup SHIM_IPCD_DONE, {})
    /\ D0PostFrame("ipcd")

\* snd_sof_dsp_write(sdev, HSW_DSP_BAR, SHIM_IPCD, 0x0);
D0Ipcd ==
    /\ D0ShimWrite("d0_ipcd", "d0_r80", "IPCD", {})
    /\ D0PostFrame("ipcd")

\* snd_sof_dsp_write(sdev, HSW_DSP_BAR, 0x80, 0x6);
D0R80 ==
    /\ D0ShimWrite("d0_r80", "d0_re0", "R80", Bits(6))
    /\ D0PostFrame("r80")

\* snd_sof_dsp_write(sdev, HSW_DSP_BAR, 0xe0, 0x300a); return 0;
D0Re0 ==
    /\ D0ShimWrite("d0_re0", "p_d0_ret", "RE0", Bits(12298))
    /\ steps' = steps \cup {"re0"}
    /\ d0_ret' = <<0>>
    /\ UNCHANGED <<notBring, boxes, ret, mapped, maps, unmaps, badunmaps,
                   irq_reg, tries, samples, sleeps, reset_caller, csr_entry,
                   op_ret>>

SetDspD0 ==
    \/ D0GateOff \/ D0D3pgd \/ D0SetPs \/ D0Poll \/ D0Sleep
    \/ D0ClkSel \/ D0Stall \/ D0ClkCtl \/ D0GateOn \/ D0Pll \/ D0Pg
    \/ D0Csr2 \/ D0Hmdc \/ D0Imrx \/ D0Imrd \/ D0Ipcx \/ D0Ipcd
    \/ D0R80 \/ D0Re0


----------------------------------------------------------------------------
(* hsw_reset *)

\* put DSP into reset and stall
ResetAssert ==
    /\ pc = "rst_assert"
    /\ csr_entry' = shim["CSR"]
    /\ shim' = [shim EXCEPT !["CSR"] =
                  UpdateBits(@, SHIM_CSR_RST \cup SHIM_CSR_STALL,
                             SHIM_CSR_RST \cup SHIM_CSR_STALL)]
    /\ pc' = "rst_hold"
    /\ op_ret' = NoRet
    /\ UNCHANGED <<notBring, pci, boxes, ret, mapped, maps, unmaps, badunmaps,
                   irq_reg, tries, samples, sleeps, d0_ret, steps,
                   reset_caller>>

\* keep in reset for 10ms: mdelay(10)
ResetHold ==
    /\ pc = "rst_hold"
    /\ pc' = "rst_release"
    /\ UNCHANGED <<notBring, regVars, boxes, ret, mapped, maps, unmaps,
                   badunmaps, irq_reg, tries, samples, sleeps, d0_ret, steps,
                   reset_caller, csr_entry, op_ret>>

\* the release written with value 0: the stall bit is dropped with reset
ResetReleaseDropsStall ==
    /\ pc = "rst_release"
    /\ shim' = [shim EXCEPT !["CSR"] =
                  UpdateBits(@, SHIM_CSR_RST \cup SHIM_CSR_STALL, {})]
    /\ op_ret' = [op |-> "reset", val |-> 0]
    /\ pc' = IF reset_caller = "d0" THEN "d0_gate_on" ELSE "attached"
    /\ steps' = IF reset_caller = "d0" THEN steps \cup {"reset"} ELSE steps
    /\ reset_caller' = "none"
    /\ UNCHANGED <<notBring, pci, boxes, ret, mapped, maps, unmaps, badunmaps,
                   irq_reg, tries, samples, sleeps, d0_ret, csr_entry>>

\* take DSP out of reset and keep stalled for FW loading; return 0
ResetRelease ==
    /\ pc = "rst_release"
    /\ shim' = [shim EXCEPT !["CSR"] =
                  UpdateBits(@, SHIM_CSR_RST \cup SHIM_CSR_STALL,
                             SHIM_CSR_STALL)]
    /\ op_ret' = [op |-> "reset", val |-> 0]
    /\ pc' = IF reset_caller = "d0" THEN "d0_gate_on" ELSE "attached"
    /\ steps' = IF reset_caller = "d0" THEN steps \cup {"reset"} ELSE steps
    /\ reset_caller' = "none"
    /\ UNCHANGED <<notBring, pci, boxes, ret, mapped, maps, unmaps, badunmaps,
                   irq_reg, tries, samples, sleeps, d0_ret, csr_entry>>

Reset == ResetAssert \/ ResetHold \/ ResetRelease

\* the framework calls the .reset op of an attached device
CallReset ==
    /\ pc = "attached"
    /\ pc' = "rst_assert"
    /\ reset_caller' = "op"
    /\ UNCHANGED <<notBring, regVars, boxes, ret, mapped, maps, unmaps,
                   badunmaps, irq_reg, tries, samples, sleeps, d0_ret, steps,
                   csr_entry, op_ret>>

----------------------------------------------------------------------------
(* hsw_run *)

\* the DMA mode register is left as it is
RunHmdcLeavesChannels ==
    /\ pc = "attached"
    /\ shim' = shim
    /\ pc' = "run_csr"
    /\ op_ret' = NoRet
    /\ UNCHANGED <<notBring, pci, boxes, ret, mapped, maps, unmaps, badunmaps,
                   irq_reg, tries, samples, sleeps, d0_ret, steps,
                   reset_caller, csr_entry>>

\* set oportunistic mode on engine 0,1 for all channels
RunHmdc ==
    /\ pc = "attached"
    /\ shim' = [shim EXCEPT !["HMDC"] =
                  UpdateBits(@, SHIM_HMDC_HDDA_E0_ALLCH \cup
                                SHIM_HMDC_HDDA_E1_ALLCH, {})]
    /\ pc' = "run_csr"
    /\ op_ret' = NoRet
    /\ UNCHANGED <<notBring, pci, boxes, ret, mapped, maps, unmaps, badunmaps,
                   irq_reg, tries, samples, sleeps, d0_ret, steps,
                   reset_caller, csr_entry>>

\* set DSP to RUN; return 0
RunCsr ==
    /\ pc = "run_csr"
    /\ shim' = [shim EXCEPT !["CSR"] = UpdateBits(@, SHIM_CSR_STALL, {})]
    /\ pc' = "attached"
    /\ op_ret' = [op |-> "run", val |-> 0]
    /\ UNCHANGED <<notBring, pci, boxes, ret, mapped, maps, unmaps, badunmaps,
                   irq_reg, tries, samples, sleeps, d0_ret, steps,
                   reset_caller, csr_entry>>

Run == RunHmdc \/ RunCsr

----------------------------------------------------------------------------
(* hsw_remove *)

\* iounmap(sdev->bar[HSW_DSP_BAR]);
RemoveDsp ==
    /\ pc = "attached"
    /\ Iounmap(HSW_DSP_BAR)
    /\ pc' = "rm_pci"
    /\ UNCHANGED <<notBring, regVars, boxes, ret, maps, irq_reg, tries,
                   samples, sleeps, d0_ret, steps, reset_caller, csr_entry,
                   op_ret>>

\* iounmap(sdev->bar[HSW_PCI_BAR]);
RemovePci ==
    /\ pc = "rm_pci"
    /\ Iounmap(HSW_PCI_BAR)
    /\ pc' = "rm_irq"
    /\ UNCHANGED <<notBring, regVars, boxes, ret, maps, irq_reg, tries,
                   samples, sleeps, d0_ret, steps, reset_caller, csr_entry,
                   op_ret>>

\* free_irq(sdev->ipc_irq, sdev); return 0;
RemoveIrq ==
    /\ pc = "rm_irq"
    \* free_irq returns once no handler and no thread run is under way
    /\ ih.pc = "idle" /\ th.pc = "idle" /\ ~wake
    /\ irq_reg' = FALSE
    /\ pc' = "detached"
    /\ UNCHANGED <<notBring, regVars, boxes, ret, mapped, maps, unmaps,
                   badunmaps, tries, samples, sleeps, d0_ret, steps,
                   reset_caller, csr_entry, op_ret>>

Remove == RemoveDsp \/ RemovePci \/ RemoveIrq

----------------------------------------------------------------------------
(* Bring-up, core control and detach of one device *)

Next ==
    \/ ProbeLpeRes \/ ProbeMapDsp \/ ProbePciRes \/ ProbeMapPci
    \/ ProbeGetIrq \/ ProbeRequestIrq \/ ProbeD0Ret \/ ProbeDma
    \/ ProbeIrqErr \/ ProbePciErr
    \/ D0GateOff \/ D0D3pgd \/ D0SetPs \/ D0Poll \/ D0Sleep
    \/ D0ClkSel \/ D0Stall \/ D0ClkCtl \/ D0GateOn \/ D0Pll \/ D0Pg
    \/ D0Csr2 \/ D0Hmdc \/ D0Imrx \/ D0Imrd \/ D0Ipcx \/ D0Ipcd
    \/ D0R80 \/ D0Re0
    \/ ResetAssert \/ ResetHold \/ ResetRelease \/ CallReset
    \/ RunHmdc \/ RunCsr
    \/ RemoveDsp \/ RemovePci \/ RemoveIrq

Spec == Init /\ [][Next]_vars


----------------------------------------------------------------------------
(* Core control of an attached device, from any value of SHIM_CSR *)

CoreCsrBits == SHIM_CSR_RST \cup SHIM_CSR_STALL \cup SHIM_CSR_DCS4
                 \cup SHIM_CSR_LPCS \cup {8}

\* the attach thread after a successful hsw_probe
Attached ==
    /\ pc = "attached"
    /\ ret = <<0>>
    /\ mapped = [b \in Bars |-> TRUE]
    /\ maps = [b \in Bars |-> 1]
    /\ unmaps = [b \in Bars |-> 0]
    /\ badunmaps = [b \in Bars |-> 0]
    /\ irq_reg = TRUE
    /\ tries = D0Tries
    /\ samples = 0
    /\ sleeps = 0
    /\ d0_ret = <<0>>
    /\ steps = {}
    /\ reset_caller = "none"
    /\ csr_entry = {}
    /\ op_ret = NoRet

CoreInit ==
    /\ Attached
    /\ \E csr \in SUBSET CoreCsrBits, hot \in BOOLEAN :
         /\ shim = [(IF hot THEN ShimAllSet ELSE ShimAllClear) EXCEPT !["CSR"] = csr]
         /\ pci = IF hot THEN PciAllSet ELSE PciAllClear
    /\ boxes = MailboxInit(Boxes0, MBOX_OFFSET, MBOX_SIZE, 0, 0)
    /\ ReplyIdle /\ BlockIdle /\ WinIdle /\ IrqIdle

CoreNext ==
    \/ CallReset \/ ResetAssert \/ ResetHold \/ ResetRelease
    \/ RunHmdc \/ RunCsr

SpecCore == CoreInit /\ [][CoreNext]_vars

----------------------------------------------------------------------------
(* Claims on bring-up and core control *)

PsField == pci["PMCS"] \cap PCI_PMCS_PS_MASK

D0FinishSteps == {"clksel", "stall", "clkctl", "reset", "gate_on", "pll", "pg",
                  "csr2", "hmdc", "imrx", "imrd", "ipcx", "ipcd", "r80", "re0"}

\* C1: in hsw_set_dsp_D0 the power-state field is sampled at most 10 times,
\* with one msleep(20) after every sample that read non-zero.  A timeout
\* (-ENODEV) is returned only after exactly 10 samples and 10 sleeps, all
\* non-zero, and then no statement after the loop has run.  When sample k
\* reads zero, polling stops there (k samples, k-1 sleeps) and the rest of
\* the sequence runs: a successful return has run every later statement.
C1_D0Polling ==
    /\ samples \in 0..D0Tries
    /\ pc = "d0_poll" => sleeps = samples /\ tries = D0Tries - samples
                         /\ steps = {}
    /\ pc = "d0_sleep" => sleeps = samples - 1 /\ PsField # {} /\ steps = {}
    /\ d0_ret = <<-ENODEV>> =>
         /\ samples = D0Tries /\ sleeps = D0Tries
         /\ PsField # {}
         /\ steps = {}
    /\ (pc = "d0_clksel" \/ steps # {}) =>
         /\ samples \in 1..D0Tries /\ sleeps = samples - 1
         /\ PsField = {}
         /\ d0_ret # <<-ENODEV>>
    /\ d0_ret = <<0>> => steps = D0FinishSteps

\* the loop timed out and hsw_probe returned the error
C1_Witness ==
    /\ pc = "failed" /\ ret = <<-ENODEV>> /\ d0_ret = <<-ENODEV>>
    /\ samples = D0Tries

ResetBits == SHIM_CSR_RST \cup SHIM_CSR_STALL

\* C2: hsw_reset, from every value of SHIM_CSR: while the 10ms delay runs
\* and until reset is released, RST and STALL are both set; on return RST is
\* clear and STALL is set; every other bit is as it was on entry; the value
\* returned is 0.
C2_Reset ==
    /\ pc \in {"rst_hold", "rst_release"} =>
         /\ ResetBits \subseteq shim["CSR"]
         /\ shim["CSR"] \ ResetBits = csr_entry \ ResetBits
    /\ op_ret.op = "reset" =>
         /\ op_ret.val = 0
         /\ shim["CSR"] \cap ResetBits = SHIM_CSR_STALL
         /\ shim["CSR"] \ ResetBits = csr_entry \ ResetBits

\* a reset returned that was entered with RST set, STALL clear and other
\* bits set
C2_Witness ==
    /\ op_ret.op = "reset"
    /\ csr_entry \cap ResetBits = SHIM_CSR_RST
    /\ {8, 31} \subseteq csr_entry

\* C10: whenever hsw_probe has returned an error, every region it mapped is
\* unmapped again exactly once, no region it never mapped was unmapped, and
\* no interrupt handler is registered.
C10_ProbeUnwinds ==
    pc = "failed" =>
        /\ \A b \in Bars : /\ ~mapped[b]
                           /\ unmaps[b] = maps[b]
                           /\ badunmaps[b] = 0
        /\ ~irq_reg


\* hsw_set_dsp_D0 is between its "finish" label and its return
D0Finishing ==
    \/ pc \in {"d0_clksel", "d0_stall", "d0_clkctl", "d0_gate_on", "d0_pll",
               "d0_pg", "d0_csr2", "d0_hmdc", "d0_imrx", "d0_imrd", "d0_ipcx",
               "d0_ipcd", "d0_r80", "d0_re0"}
    \/ pc \in {"rst_assert", "rst_hold", "rst_release"} /\ reset_caller = "d0"
    \/ pc = "p_d0_ret" /\ d0_ret = <<0>>
D0Returned == pc = "p_d0_ret" /\ d0_ret = <<0>>

----------------------------------------------------------------------------
(* hsw_get_reply *)

\* little-endian images of 32-bit values, as memcpy_fromio moves them
U32ToBytes(n) == <<n % 256, (n \div 256) % 256, (n \div 65536) % 256,
                   (n \div 16777216) % 256>>
S32ToBytes(n) == IF n >= 0 THEN U32ToBytes(n)
                 ELSE LET b == U32ToBytes(n + 1073741824 + 1073741824)
                      IN <<b[1], b[2], b[3], b[4] + 128>>
BytesToU32(b) == b[1] + 256 * b[2] + 65536 * b[3] + 16777216 * b[4]
BytesToS32(b) == IF b[4] >= 128
                 THEN b[1] + 256 * b[2] + 65536 * b[3]
                      + 16777216 * (b[4] - 256)
                 ELSE BytesToU32(b)

\* struct sof_ipc_reply: hdr.size at byte 0, error at byte 4
SIZEOF_REPLY == 8
DecodeReply(bytes) ==
    [size |-> BytesToU32(SubSeq(bytes, 1, 4)),
     error |-> BytesToS32(SubSeq(bytes, 5, 8))]

\* hsw_mailbox_read(sdev, sdev->host_box.offset, dst, bytes): the first
\* `bytes` bytes of the host box
MailboxRead(bytes) == SubSeq(mbox, 1, bytes)

\* memcpy_fromio into a buffer: the first Len(data) bytes are replaced
CopyInto(buf, data) ==
    [i \in 1..Len(buf) |-> IF i <= Len(data) THEN data[i] ELSE buf[i]]

BoxLen == 16                       \* bytes of the host box that are modelled
ReplyHdrSizes == {0, 8, 12, 16}    \* reply.hdr.size as the DSP wrote it
ReplyErrors == {-22, -1, 0, 1}     \* reply.error as the DSP wrote it
ExpectedSizes == {0, 8, 16}        \* msg->reply_size
Payload == [i \in 1..(BoxLen - SIZEOF_REPLY) |-> 16 + i]
Untouched == [i \in 1..BoxLen |-> 238]

ReplyInit ==
    /\ \E hs \in ReplyHdrSizes, e \in ReplyErrors :
         mbox = U32ToBytes(hs) \o S32ToBytes(e) \o Payload
    /\ \E md \in {"NULL", "buf"}, rs \in ExpectedSizes :
         msg = [msg_data |-> md, reply_size |-> rs, reply_data |-> Untouched]
    /\ gr = [pc |-> "start", reply |-> [size |-> 0, error |-> 0], size |-> 0,
             ret |-> 0, copied |-> 0]

\* the size of the reply in the error branch taken from the header
GetReplyHeaderTrustsHeader ==
    /\ gr.pc = "start"
    /\ LET reply == DecodeReply(MailboxRead(SIZEOF_REPLY)) IN
         gr' = [gr EXCEPT
                  !.pc = "read",
                  !.reply = reply,
                  !.size = reply.size,
                  !.ret = IF reply.error < 0 THEN reply.error
                          ELSE IF reply.size # msg.reply_size THEN -EINVAL
                          ELSE 0]
    /\ UNCHANGED <<mbox, msg>>

\* get reply: read the header, choose size and ret
GetReplyHeader ==
    /\ gr.pc = "start"
    /\ LET reply == DecodeReply(MailboxRead(SIZEOF_REPLY)) IN
         gr' = [gr EXCEPT
                  !.pc = "read",
                  !.reply = reply,
                  !.size = IF reply.error < 0 THEN SIZEOF_REPLY
                           ELSE IF reply.size # msg.reply_size
                                THEN msg.reply_size
                           ELSE reply.size,
                  !.ret = IF reply.error < 0 THEN reply.error
                          ELSE IF reply.size # msg.reply_size THEN -EINVAL
                          ELSE 0]
    /\ UNCHANGED <<mbox, msg>>

\* read the message: if (msg->msg_data && size > 0) mailbox_read(.., size);
\* return ret
GetReplyData ==
    /\ gr.pc = "read"
    /\ IF msg.msg_data # "NULL" /\ gr.size > 0
       THEN /\ msg' = [msg EXCEPT !.reply_data = CopyInto(@, MailboxRead(gr.size))]
            /\ gr' = [gr EXCEPT !.pc = "done", !.copied = gr.size]
       ELSE /\ msg' = msg
            /\ gr' = [gr EXCEPT !.pc = "done"]
    /\ UNCHANGED mbox

ReplyNext ==
    \/ GetReplyHeader /\ UNCHANGED <<regVars, bringVars, boxes, blockVars, winVars, irqVars>>
    \/ GetReplyData /\ UNCHANGED <<regVars, bringVars, boxes, blockVars, winVars, irqVars>>

\* an attached device with a reply waiting in the host box
ReplySpecInit ==
    /\ Attached /\ shim = ShimAllClear /\ pci = PciAllClear
    /\ boxes = MailboxInit(Boxes0, MBOX_OFFSET, MBOX_SIZE, 0, 0)
    /\ ReplyInit /\ BlockIdle /\ WinIdle /\ IrqIdle

SpecReply == ReplySpecInit /\ [][ReplyNext]_vars

(* Claims on hsw_get_reply *)

\* the reply as the DSP wrote it
SentReply == DecodeReply(mbox)
SizeMismatch == SentReply.error >= 0 /\ SentReply.size # msg.reply_size

\* the reply buffer holds the first n bytes of the host box and is
\* untouched after them
ReadBack(n) ==
    /\ gr.copied = n
    /\ msg.reply_data = CopyInto(Untouched, SubSeq(mbox, 1, n))

\* C3: a reply with a non-negative error and a header size that differs
\* from msg->reply_size makes hsw_get_reply return -EINVAL and copy exactly
\* msg->reply_size bytes of the host box into the reply buffer.
C3_Original ==
    (gr.pc = "done" /\ SizeMismatch) =>
        /\ gr.ret = -EINVAL
        /\ ReadBack(msg.reply_size)

\* what the code does on a size mismatch: it returns -EINVAL and takes
\* msg->reply_size, never the header's size, as the size; that many bytes
\* are copied when msg->msg_data is not NULL, and none when it is NULL.
C3_SizeMismatch ==
    (gr.pc = "done" /\ SizeMismatch) =>
        /\ gr.ret = -EINVAL
        /\ gr.size = msg.reply_size
        /\ IF msg.msg_data # "NULL" THEN ReadBack(msg.reply_size)
           ELSE ReadBack(0)

\* a mismatching reply was read back with the expected, larger size
C3_Witness ==
    /\ gr.pc = "done" /\ SizeMismatch
    /\ SentReply.size = 8 /\ msg.reply_size = 16
    /\ gr.copied = 16

\* C4: a reply with a negative error makes hsw_get_reply return that
\* error, whatever the two sizes are, and the number of bytes taken as the
\* reply and read back is sizeof(reply).
C4_Original ==
    (gr.pc = "done" /\ SentReply.error < 0) =>
        /\ gr.ret = SentReply.error
        /\ gr.size = SIZEOF_REPLY
        /\ ReadBack(SIZEOF_REPLY)

\* what the code does on an error reply: it returns that error and takes
\* sizeof(reply) as the size; that many bytes are read back when
\* msg->msg_data is not NULL, and none when it is NULL.
C4_ErrorReply ==
    (gr.pc = "done" /\ SentReply.error < 0) =>
        /\ gr.ret = SentReply.error
        /\ gr.size = SIZEOF_REPLY
        /\ IF msg.msg_data # "NULL" THEN ReadBack(SIZEOF_REPLY)
           ELSE ReadBack(0)

\* an error reply whose header size matches none of the sizes was read
C4_Witness ==
    /\ gr.pc = "done" /\ SentReply.error = -22
    /\ SentReply.size = 16 /\ msg.reply_size = 0
    /\ gr.copied = SIZEOF_REPLY


----------------------------------------------------------------------------
(* hsw_block_write / hsw_block_read *)

MaxLen == 6                        \* largest payload length tried
BlockOffsets == {0, 4}             \* offsets tried
ByteVals == {0, 18, 255}           \* byte values tried
MemFill == 170                     \* what the region holds beforehand
MemLen == 4 + 4 * ((MaxLen + 3) \div 4)

\* the byte at address a of the region (sequences count from 1)
MemAt(m, a) == m[a + 1]

\* one 32-bit store of the four bytes w at address a
Store32(m, a, w) ==
    [i \in 1..Len(m) |-> IF i - 1 \in a..(a + 3) THEN w[i - a] ELSE m[i]]

RECURSIVE Iowrite32Copy(_, _, _, _)
\* __iowrite32_copy(to, from, count): count 32-bit stores, word k of `from`
\* to to + 4k
Iowrite32Copy(m, to, from, count) ==
    IF count = 0 THEN m
    ELSE Store32(Iowrite32Copy(m, to, from, count - 1),
                 to + 4 * (count - 1),
                 SubSeq(from, 4 * (count - 1) + 1, 4 * count))

RECURSIVE Pow256(_)
Pow256(i) == IF i = 0 THEN 1 ELSE 256 * Pow256(i - 1)

RECURSIVE TailWordBigEndian(_, _, _)
\* the trailing bytes packed first byte highest
TailWordBigEndian(src, m, n) ==
    IF n = 0 THEN 0
    ELSE src[m * 4 + n] + 256 * TailWordBigEndian(src, m, n - 1)

RECURSIVE TailWord(_, _, _)
\* for (i = 0; i < n; i++) tmp |= (u32)*(src_byte + m * 4 + i) << (i * 8);
TailWord(src, m, n) ==
    IF n = 0 THEN 0
    ELSE TailWord(src, m, n - 1) + src[m * 4 + n] * Pow256(n - 1)

BlockInit ==
    /\ mem = [i \in 1..MemLen |-> MemFill]
    /\ \E size \in 0..MaxLen, off \in BlockOffsets :
         \E src \in [1..size -> ByteVals] :
           bw = [pc |-> "start", offset |-> off, src |-> src, size |-> size,
                 stores |-> <<>>, dest |-> <<>>]

\* m = size / 4; __iowrite32_copy((void *)dest, src, m);
BlockWriteBulk ==
    /\ bw.pc = "start"
    /\ LET m == bw.size \div 4 IN
         /\ mem' = Iowrite32Copy(mem, bw.offset, bw.src, m)
         /\ bw' = [bw EXCEPT !.pc = "tail",
                             !.stores = [k \in 1..m |-> bw.offset + 4 * (k - 1)]]

\* n = size % 4; if (n) { pack; __iowrite32_copy(dest + m * 4, &tmp, 1); }
BlockWriteTail ==
    /\ bw.pc = "tail"
    /\ LET m == bw.size \div 4
           n == bw.size % 4
       IN IF n # 0
          THEN /\ mem' = Iowrite32Copy(mem, bw.offset + m * 4,
                                       U32ToBytes(TailWord(bw.src, m, n)), 1)
               /\ bw' = [bw EXCEPT !.pc = "written",
                                   !.stores = Append(@, bw.offset + m * 4)]
          ELSE /\ mem' = mem
               /\ bw' = [bw EXCEPT !.pc = "written"]

\* hsw_block_read: memcpy_fromio(dest, src, size) at the same offset
BlockRead ==
    /\ bw.pc = "written"
    /\ bw' = [bw EXCEPT !.pc = "read",
                        !.dest = [i \in 1..bw.size |->
                                    MemAt(mem, bw.offset + i - 1)]]
    /\ mem' = mem

BlockNext ==
    \/ BlockWriteBulk /\ UNCHANGED <<regVars, bringVars, boxes, replyVars, winVars, irqVars>>
    \/ BlockWriteTail /\ UNCHANGED <<regVars, bringVars, boxes, replyVars, winVars, irqVars>>
    \/ BlockRead /\ UNCHANGED <<regVars, bringVars, boxes, replyVars, winVars, irqVars>>

\* an attached device and a caller about to write a block
BlockSpecInit ==
    /\ Attached /\ shim = ShimAllClear /\ pci = PciAllClear
    /\ boxes = MailboxInit(Boxes0, MBOX_OFFSET, MBOX_SIZE, 0, 0)
    /\ ReplyIdle /\ BlockInit /\ WinIdle /\ IrqIdle

SpecBlock == BlockSpecInit /\ [][BlockNext]_vars

(* Claims on the block copy *)

\* C7: for every length (also below 4 and not a multiple of 4) and content,
\* hsw_block_read of the same length at the same offset returns the bytes
\* hsw_block_write was given.  The write is made of 32-bit stores only:
\* size / 4 full words, then, for 1 to 3 trailing bytes, one more store at
\* offset + 4 * (size / 4) that holds them lowest byte first and zero in the
\* bytes above them.  Nothing outside the stored words changes.
C7_BlockRoundTrip ==
    LET m == bw.size \div 4
        n == bw.size % 4
        words == m + (IF n # 0 THEN 1 ELSE 0)
    IN
    /\ bw.pc = "read" => bw.dest = bw.src
    /\ bw.pc \in {"written", "read"} =>
         /\ bw.stores = [k \in 1..words |-> bw.offset + 4 * (k - 1)]
         /\ \A a \in 0..(MemLen - 1) :
              MemAt(mem, a) =
                IF a \in bw.offset..(bw.offset + bw.size - 1)
                  THEN bw.src[a - bw.offset + 1]
                ELSE IF a \in bw.offset..(bw.offset + 4 * words - 1) THEN 0
                ELSE MemFill

\* five bytes, the last one non-zero, were written at offset 4 and read back
C7_Witness ==
    /\ bw.pc = "read"
    /\ bw.size = 5 /\ bw.offset = 4
    /\ bw.src[5] = 255 /\ bw.src[1] = 18
    /\ bw.dest = bw.src


----------------------------------------------------------------------------
(* hsw_fw_ready / hsw_get_windows *)

MaxWindows == 3                    \* longest window table tried
RegionTypes == {"UPBOX", "DOWNBOX", "TRACE", "DEBUG", "STREAM", "REGS",
                "EXCEPTION"}
\* "ILLEGAL" stands for every type value the switch has no case for
ElemTypes == RegionTypes \cup {"ILLEGAL"}
\* <<offset, size>> pairs tried for a window element
ElemGeoms == {<<0, 256>>, <<1024, 0>>, <<2048, 128>>}
WindowElems == {[type |-> t, offset |-> g[1], size |-> g[2]] :
                  t \in ElemTypes, g \in ElemGeoms}
WindowTables == UNION {[1..k -> WindowElems] : k \in 0..MaxWindows}

\* name of the debugfs item each recognized type creates
ItemName(t) == CASE t = "UPBOX" -> "inbox"
                 [] t = "DOWNBOX" -> "outbox"
                 [] t = "TRACE" -> "etrace"
                 [] t = "DEBUG" -> "debug"
                 [] t = "STREAM" -> "stream"
                 [] t = "REGS" -> "regs"
                 [] t = "EXCEPTION" -> "exception"

\* the boxes the firmware-ready descriptor declares
FwReadyBoxes == [dspbox_offset |-> 4096, dspbox_size |-> 1024,
                 hostbox_offset |-> 8, hostbox_size |-> 512]

WinInit ==
    \E has \in BOOLEAN, t \in WindowTables :
      /\ has \/ t = <<>>
      /\ win = [pc |-> "fw_ready", info_window |-> has, window |-> t, i |-> 0,
                inbox_offset |-> 0, inbox_size |-> 0,
                outbox_offset |-> 0, outbox_size |-> 0,
                stream_offset |-> 0, stream_size |-> 0,
                items |-> <<>>, errors |-> <<>>, ret |-> <<>>]

\* hsw_fw_ready up to the call of hsw_get_windows: the boxes are set from
\* the firmware-ready descriptor
FwReady ==
    /\ win.pc = "fw_ready"
    /\ boxes' = MailboxInit(boxes, FwReadyBoxes.dspbox_offset,
                            FwReadyBoxes.dspbox_size,
                            FwReadyBoxes.hostbox_offset,
                            FwReadyBoxes.hostbox_size)
    /\ win' = [win EXCEPT !.pc = "gw_start"]

\* if (!sdev->info_window) { dev_err(..); return; }
GetWindowsStart ==
    /\ win.pc = "gw_start"
    /\ IF ~win.info_window
       THEN win' = [win EXCEPT !.pc = "done", !.ret = <<0>>,
                               !.errors = Append(@, "no window info")]
       ELSE win' = [win EXCEPT !.pc = "gw_loop"]
    /\ boxes' = boxes

\* what one pass of the loop body does with a recognized element
WindowCase(w, elem) ==
    LET withItem == [w EXCEPT !.items = Append(@, ItemName(elem.type)),
                              !.i = @ + 1]
    IN CASE elem.type = "UPBOX" ->
              [withItem EXCEPT !.inbox_offset = elem.offset + MBOX_OFFSET,
                               !.inbox_size = elem.size]
         [] elem.type = "DOWNBOX" ->
              [withItem EXCEPT !.outbox_offset = elem.offset + MBOX_OFFSET,
                               !.outbox_size = elem.size]
         [] elem.type = "STREAM" ->
              [withItem EXCEPT !.stream_offset = elem.offset + MBOX_OFFSET,
                               !.stream_size = elem.size]
         [] OTHER -> withItem

\* the default case written as "continue": the element is skipped
GetWindowsElemSkipsIllegal ==
    /\ win.pc = "gw_loop"
    /\ win.i < Len(win.window)
    /\ LET elem == win.window[win.i + 1] IN
         IF elem.type \notin RegionTypes
         THEN /\ win' = [win EXCEPT !.i = @ + 1,
                           !.errors = Append(@, "get illegal window info")]
              /\ boxes' = boxes
         ELSE /\ win' = WindowCase(win, elem)
              /\ boxes' = IF elem.type = "EXCEPTION"
                          THEN [boxes EXCEPT !.dsp_oops_offset =
                                               elem.offset + MBOX_OFFSET]
                          ELSE boxes

\* one pass of: for (i = 0; i < num_windows; i++) switch (elem->type) ...
GetWindowsElem ==
    /\ win.pc = "gw_loop"
    /\ win.i < Len(win.window)
    /\ LET elem == win.window[win.i + 1] IN
         IF elem.type \notin RegionTypes
         THEN /\ win' = [win EXCEPT !.pc = "done", !.ret = <<0>>,
                           !.errors = Append(@, "get illegal window info")]
              /\ boxes' = boxes
         ELSE /\ win' = WindowCase(win, elem)
              /\ boxes' = IF elem.type = "EXCEPTION"
                          THEN [boxes EXCEPT !.dsp_oops_offset =
                                               elem.offset + MBOX_OFFSET]
                          ELSE boxes

\* the live boxes set from the declared offsets without the mailbox base
GetWindowsFinishNoBase ==
    /\ win.pc = "gw_loop"
    /\ win.i = Len(win.window)
    /\ IF win.outbox_size = 0 \/ win.inbox_size = 0
       THEN /\ win' = [win EXCEPT !.pc = "done", !.ret = <<0>>,
                         !.errors = Append(@, "get illegal mailbox window")]
            /\ boxes' = boxes
       ELSE /\ win' = [win EXCEPT !.pc = "done", !.ret = <<0>>]
            /\ boxes' = [MailboxInit(boxes, win.inbox_offset - MBOX_OFFSET,
                                     win.inbox_size,
                                     win.outbox_offset - MBOX_OFFSET,
                                     win.outbox_size)
                           EXCEPT !.stream_box =
                                    [offset |-> win.stream_offset,
                                     size |-> win.stream_size]]

\* after the loop: both mailbox sizes must be non-zero; then
\* snd_sof_dsp_mailbox_init and the stream box; hsw_fw_ready returns 0
GetWindowsFinish ==
    /\ win.pc = "gw_loop"
    /\ win.i = Len(win.window)
    /\ IF win.outbox_size = 0 \/ win.inbox_size = 0
       THEN /\ win' = [win EXCEPT !.pc = "done", !.ret = <<0>>,
                         !.errors = Append(@, "get illegal mailbox window")]
            /\ boxes' = boxes
       ELSE /\ win' = [win EXCEPT !.pc = "done", !.ret = <<0>>]
            /\ boxes' = [MailboxInit(boxes, win.inbox_offset, win.inbox_size,
                                     win.outbox_offset, win.outbox_size)
                           EXCEPT !.stream_box =
                                    [offset |-> win.stream_offset,
                                     size |-> win.stream_size]]

WinNext ==
    \/ FwReady /\ UNCHANGED <<regVars, bringVars, replyVars, blockVars, irqVars>>
    \/ GetWindowsStart /\ UNCHANGED <<regVars, bringVars, replyVars, blockVars, irqVars>>
    \/ GetWindowsElem /\ UNCHANGED <<regVars, bringVars, replyVars, blockVars, irqVars>>
    \/ GetWindowsFinish /\ UNCHANGED <<regVars, bringVars, replyVars, blockVars, irqVars>>

\* the handshake runs on an attached device, whose boxes hsw_probe set
WinSpecInit ==
    /\ Attached /\ shim = ShimAllClear /\ pci = PciAllClear
    /\ boxes = MailboxInit(Boxes0, MBOX_OFFSET, MBOX_SIZE, 0, 0)
    /\ ReplyIdle /\ BlockIdle /\ WinInit /\ IrqIdle

SpecWin == WinSpecInit /\ [][WinNext]_vars


(* Claims on window discovery *)

\* index of the last element of type ty among the first upto, 0 if none
LastOf(ty, upto) ==
    LET hits == {k \in 1..upto : win.window[k].type = ty}
    IN IF hits = {} THEN 0 ELSE CHOOSE k \in hits : \A j \in hits : j <= k

\* index of the first element of an unrecognized type, 0 if none
FirstIllegal ==
    LET hits == {k \in 1..Len(win.window) : win.window[k].type \notin RegionTypes}
    IN IF hits = {} THEN 0 ELSE CHOOSE k \in hits : \A j \in hits : k <= j

\* the declared size of the last element of type ty, 0 if there is none
DeclaredSize(ty) ==
    LET k == LastOf(ty, Len(win.window))
    IN IF k = 0 THEN 0 ELSE win.window[k].size

\* the box an element declares, moved by the mailbox base
DeclaredBox(k) == [offset |-> win.window[k].offset + MBOX_OFFSET,
                   size |-> win.window[k].size]

\* the boxes as hsw_get_windows finds them on entry
EntryBoxes == MailboxInit(MailboxInit(Boxes0, MBOX_OFFSET, MBOX_SIZE, 0, 0),
                          FwReadyBoxes.dspbox_offset, FwReadyBoxes.dspbox_size,
                          FwReadyBoxes.hostbox_offset, FwReadyBoxes.hostbox_size)

\* C8: when every element type of the table is recognized and the last
\* inbound-mailbox and the last outbound-mailbox element both have a
\* non-zero size, the live inbound box is the last inbound element's offset
\* plus MBOX_OFFSET with its size, the live outbound box likewise, and the
\* stream box is the last stream element's offset plus MBOX_OFFSET with its
\* size (offset 0, size 0 when the table declares no stream element).
C8_WindowsInit ==
    (/\ win.pc = "done" /\ win.info_window
     /\ FirstIllegal = 0
     /\ DeclaredSize("UPBOX") # 0 /\ DeclaredSize("DOWNBOX") # 0) =>
        LET n == Len(win.window) IN
        /\ boxes.dsp_box = DeclaredBox(LastOf("UPBOX", n))
        /\ boxes.host_box = DeclaredBox(LastOf("DOWNBOX", n))
        /\ boxes.stream_box = IF LastOf("STREAM", n) = 0 THEN NoBox
                              ELSE DeclaredBox(LastOf("STREAM", n))
        /\ win.errors = <<>>

\* a table with an inbound, an outbound and a stream element was taken over
C8_Witness ==
    /\ win.pc = "done"
    /\ win.errors = <<>>
    /\ boxes.dsp_box = [offset |-> 2048 + MBOX_OFFSET, size |-> 128]
    /\ boxes.host_box = [offset |-> MBOX_OFFSET, size |-> 256]
    /\ boxes.stream_box = [offset |-> 2048 + MBOX_OFFSET, size |-> 128]

\* C9: hsw_get_windows leaves the live inbound and outbound boxes and the
\* stream box as they were on entry, and logs an error, when the table has
\* an element of an unrecognized type, or no inbound or no outbound element,
\* or the last inbound or outbound element has size 0.  On an unrecognized
\* type it stops at once: exactly the elements before it were processed,
\* and the exception offset is the one the last exception element before it
\* recorded.
C9_WindowsAbort ==
    (/\ win.pc = "done" /\ win.info_window
     /\ \/ FirstIllegal # 0
        \/ DeclaredSize("UPBOX") = 0
        \/ DeclaredSize("DOWNBOX") = 0) =>
        /\ boxes.dsp_box = EntryBoxes.dsp_box
        /\ boxes.host_box = EntryBoxes.host_box
        /\ boxes.stream_box = EntryBoxes.stream_box
        /\ win.errors # <<>>
        /\ FirstIllegal # 0 =>
             /\ win.i = FirstIllegal - 1
             /\ win.items = [k \in 1..(FirstIllegal - 1) |->
                               ItemName(win.window[k].type)]
             /\ boxes.dsp_oops_offset =
                  IF LastOf("EXCEPTION", FirstIllegal - 1) = 0
                  THEN EntryBoxes.dsp_oops_offset
                  ELSE win.window[LastOf("EXCEPTION", FirstIllegal - 1)].offset
                       + MBOX_OFFSET

\* an unrecognized element between an exception element and a valid
\* inbound element stopped the parse
C9_Witness ==
    /\ win.pc = "done"
    /\ Len(win.window) = 3
    /\ win.window[1].type = "EXCEPTION" /\ win.window[1].offset = 2048
    /\ win.window[2].type = "ILLEGAL"
    /\ win.window[3].type = "UPBOX" /\ win.window[3].size # 0
    /\ boxes.dsp_oops_offset = 2048 + MBOX_OFFSET
    /\ win.i = 1


----------------------------------------------------------------------------
(* IPC: hsw_irq_handler, hsw_irq_thread, hsw_cmd_done, hsw_is_ready,
   hsw_send_msg, and the DSP at the other end of the registers *)

SOF_IPC_PANIC_MAGIC == Bits(233492480)        \* 0x0dead000
SOF_IPC_PANIC_MAGIC_MASK == Bits(268431360)   \* 0x0ffff000
HSW_PANIC_OFFSET(x) == Val(x \cap 0..15)      \* (x) & 0xFFFF

\* snd_sof_dsp_update_bits_unlocked writes only when the value changes
UpdateWrites(old, mask, value) == UpdateBits(old, mask, value) # old

\* what the DSP puts beside BUSY in the inbound command register
IpcdPayloads ==
    { {2, 28},
      SOF_IPC_PANIC_MAGIC,
      SOF_IPC_PANIC_MAGIC \cup {2, 9, 28, 29, 30},
      SOF_IPC_PANIC_MAGIC \ {12},
      SOF_IPC_PANIC_MAGIC \cup {13} }
\* what the DSP leaves in the low bits of the outbound command register
IpcxLow == { {4} }
ReplyHdrs == {17}          \* header words the DSP writes into the host box
MsgWords == {51}               \* message words the host posts
HdrLen == 4                    \* sizeof(hdr)
MaxMsgs == 2                   \* messages posted, by the host and by the DSP

IhIdle == [pc |-> "idle", isr |-> {}, ret |-> "none", old |-> {},
           updates |-> <<>>, reads |-> 0]
ThIdle == [pc |-> "idle", ipcx |-> {}, ipcd |-> {}, old |-> {},
           trace |-> <<>>, ret |-> "none"]
CdIdle == [pc |-> "idle", old |-> {}, pending |-> FALSE]
SndIdle == [pc |-> "idle", ready |-> FALSE, posts |-> 0, ret |-> <<>>]
NoCalls == [reply |-> <<>>, panic |-> <<>>, msgs_rx |-> 0]

IrqInit ==
    /\ hw_lock = "free"
    /\ wake = FALSE
    /\ ih = IhIdle
    /\ th = ThIdle
    /\ cd = CdIdle
    /\ snd = SndIdle
    /\ dsp = [notifies |-> 0]
    /\ calls = NoCalls
    /\ mbox = U32ToBytes(0)
    /\ msg = [msg_data |-> "NULL", reply_size |-> 0, reply_data |-> <<>>]
    /\ gr = [pc |-> "idle"]

(* hsw_irq_handler *)

\* the line fires (it is shared: any time); spin_lock(&sdev->hw_lock)
IrqEnter ==
    /\ irq_reg                  \* between request_threaded_irq and free_irq
    /\ ih.pc = "idle"
    /\ hw_lock = "free"
    /\ hw_lock' = "ih"
    /\ ih' = [IhIdle EXCEPT !.pc = "ih_isr", !.ret = "IRQ_NONE"]
    /\ UNCHANGED <<shim, wake, th, cd, snd, dsp, calls, mbox>>

\* isr = snd_sof_dsp_read(SHIM_ISRX)
IrqReadIsr ==
    /\ ih.pc = "ih_isr"
    /\ LET isr == shim["ISRX"] IN
         ih' = [ih EXCEPT
                  !.isr = isr,
                  !.reads = @ + 1,
                  !.pc = IF SHIM_ISRX_DONE \subseteq isr THEN "ih_done_rd"
                         ELSE IF SHIM_ISRX_BUSY \subseteq isr THEN "ih_busy_rd"
                         ELSE "ih_unlock"]
    /\ UNCHANGED <<shim, hw_lock, wake, th, cd, snd, dsp, calls, mbox>>

\* Mask Done interrupt: the read of update_bits_unlocked
IrqMaskDoneRead ==
    /\ ih.pc = "ih_done_rd"
    /\ ih' = [ih EXCEPT !.old = shim["IMRX"], !.pc = "ih_done_wr"]
    /\ UNCHANGED <<shim, hw_lock, wake, th, cd, snd, dsp, calls, mbox>>

\* Mask Done interrupt: the write; ret = IRQ_WAKE_THREAD
IrqMaskDoneWrite ==
    /\ ih.pc = "ih_done_wr"
    /\ LET new == UpdateBits(ih.old, SHIM_IMRX_DONE, SHIM_IMRX_DONE)
           wr == UpdateWrites(ih.old, SHIM_IMRX_DONE, SHIM_IMRX_DONE) IN
         /\ shim' = IF wr THEN [shim EXCEPT !["IMRX"] = new] ELSE shim
         /\ ih' = [ih EXCEPT
                     !.updates = Append(@, [old |-> ih.old, new |-> new]),
                     !.old = {},
                     !.ret = "IRQ_WAKE_THREAD",
                     !.pc = IF SHIM_ISRX_BUSY \subseteq ih.isr
                            THEN "ih_busy_rd" ELSE "ih_unlock"]
    /\ UNCHANGED <<hw_lock, wake, th, cd, snd, dsp, calls, mbox>>

\* Mask Busy interrupt: the read of update_bits_unlocked
IrqMaskBusyRead ==
    /\ ih.pc = "ih_busy_rd"
    /\ ih' = [ih EXCEPT !.old = shim["IMRX"], !.pc = "ih_busy_wr"]
    /\ UNCHANGED <<shim, hw_lock, wake, th, cd, snd, dsp, calls, mbox>>

\* the BUSY update made with the mask and value of both sources
IrqMaskBusyWriteMasksBoth ==
    /\ ih.pc = "ih_busy_wr"
    /\ LET both == SHIM_IMRX_BUSY \cup SHIM_IMRX_DONE
           new == UpdateBits(ih.old, both, both)
           wr == UpdateWrites(ih.old, both, both) IN
         /\ shim' = IF wr THEN [shim EXCEPT !["IMRX"] = new] ELSE shim
         /\ ih' = [ih EXCEPT
                     !.updates = Append(@, [old |-> ih.old, new |-> new]),
                     !.old = {},
                     !.ret = "IRQ_WAKE_THREAD",
                     !.pc = "ih_unlock"]
    /\ UNCHANGED <<hw_lock, wake, th, cd, snd, dsp, calls, mbox>>

\* Mask Busy interrupt: the write; ret = IRQ_WAKE_THREAD
IrqMaskBusyWrite ==
    /\ ih.pc = "ih_busy_wr"
    /\ LET new == UpdateBits(ih.old, SHIM_IMRX_BUSY, SHIM_IMRX_BUSY)
           wr == UpdateWrites(ih.old, SHIM_IMRX_BUSY, SHIM_IMRX_BUSY) IN
         /\ shim' = IF wr THEN [shim EXCEPT !["IMRX"] = new] ELSE shim
         /\ ih' = [ih EXCEPT
                     !.updates = Append(@, [old |-> ih.old, new |-> new]),
                     !.old = {},
                     !.ret = "IRQ_WAKE_THREAD",
                     !.pc = "ih_unlock"]
    /\ UNCHANGED <<hw_lock, wake, th, cd, snd, dsp, calls, mbox>>

\* spin_unlock(&sdev->hw_lock)
IrqUnlock ==
    /\ ih.pc = "ih_unlock"
    /\ hw_lock' = "free"
    /\ ih' = [ih EXCEPT !.pc = "ih_ret"]
    /\ UNCHANGED <<shim, wake, th, cd, snd, dsp, calls, mbox>>

\* the thread is woken whatever ret is
IrqReturnAlwaysWakes ==
    /\ ih.pc = "ih_ret"
    /\ wake' = TRUE
    /\ ih' = IhIdle
    /\ UNCHANGED <<shim, hw_lock, th, cd, snd, dsp, calls, mbox>>

\* return ret: IRQ_WAKE_THREAD wakes the interrupt thread
IrqReturn ==
    /\ ih.pc = "ih_ret"
    /\ wake' = (wake \/ ih.ret = "IRQ_WAKE_THREAD")
    /\ ih' = IhIdle
    /\ UNCHANGED <<shim, hw_lock, th, cd, snd, dsp, calls, mbox>>

(* hsw_irq_thread *)

\* the reply path taken whatever the outbound register holds
ThreadReadIpcxAlwaysReplies ==
    /\ th.pc = "idle"
    /\ wake
    /\ wake' = FALSE
    /\ th' = [ThIdle EXCEPT !.ipcx = shim["IPCX"], !.pc = "th_reply"]
    /\ calls' = NoCalls
    /\ UNCHANGED <<shim, hw_lock, ih, cd, snd, dsp, mbox>>

\* the woken thread starts; ipcx = snd_sof_dsp_read(SHIM_IPCX)
ThreadReadIpcx ==
    /\ th.pc = "idle"
    /\ wake
    /\ wake' = FALSE
    /\ LET ipcx == shim["IPCX"] IN
         th' = [ThIdle EXCEPT
                  !.ipcx = ipcx,
                  !.pc = IF SHIM_IPCX_DONE \subseteq ipcx THEN "th_reply"
                         ELSE "th_ipcd"]
    /\ calls' = NoCalls
    /\ UNCHANGED <<shim, hw_lock, ih, cd, snd, dsp, mbox>>

\* hsw_mailbox_read(host_box.offset, &hdr, sizeof(hdr));
\* snd_sof_ipc_reply(sdev, hdr)
ThreadReply ==
    /\ th.pc = "th_reply"
    /\ LET hdr == BytesToU32(MailboxRead(HdrLen)) IN
         calls' = [calls EXCEPT !.reply = Append(@, hdr)]
    /\ th' = [th EXCEPT !.pc = "th_clr_rd", !.trace = @ \o <<"hdr", "reply">>]
    /\ UNCHANGED <<shim, hw_lock, wake, ih, cd, snd, dsp, mbox>>

\* clear DONE bit: the read of update_bits_unlocked
ThreadClearDoneRead ==
    /\ th.pc = "th_clr_rd"
    /\ th' = [th EXCEPT !.old = shim["IPCX"], !.pc = "th_clr_wr"]
    /\ UNCHANGED <<shim, hw_lock, wake, ih, cd, snd, dsp, calls, mbox>>

\* clear DONE bit: the write
ThreadClearDoneWrite ==
    /\ th.pc = "th_clr_wr"
    /\ shim' = IF UpdateWrites(th.old, SHIM_IPCX_DONE, {})
               THEN Latch([shim EXCEPT !["IPCX"] =
                               UpdateBits(th.old, SHIM_IPCX_DONE, {})])
               ELSE shim
    /\ th' = [th EXCEPT !.old = {}, !.pc = "th_unm_rd",
                        !.trace = Append(@, "clear")]
    /\ UNCHANGED <<hw_lock, wake, ih, cd, snd, dsp, calls, mbox>>

\* unmask Done interrupt: the read of update_bits_unlocked
ThreadUnmaskDoneRead ==
    /\ th.pc = "th_unm_rd"
    /\ th' = [th EXCEPT !.old = shim["IMRX"], !.pc = "th_unm_wr"]
    /\ UNCHANGED <<shim, hw_lock, wake, ih, cd, snd, dsp, calls, mbox>>

\* unmask Done interrupt: the write
ThreadUnmaskDoneWrite ==
    /\ th.pc = "th_unm_wr"
    /\ shim' = IF UpdateWrites(th.old, SHIM_IMRX_DONE, {})
               THEN [shim EXCEPT !["IMRX"] =
                         UpdateBits(th.old, SHIM_IMRX_DONE, {})]
               ELSE shim
    /\ th' = [th EXCEPT !.old = {}, !.pc = "th_ipcd",
                        !.trace = Append(@, "unmask")]
    /\ UNCHANGED <<hw_lock, wake, ih, cd, snd, dsp, calls, mbox>>

\* ipcd = snd_sof_dsp_read(SHIM_IPCD)
ThreadReadIpcd ==
    /\ th.pc = "th_ipcd"
    /\ LET ipcd == shim["IPCD"] IN
         th' = [th EXCEPT
                  !.ipcd = ipcd,
                  !.pc = IF SHIM_IPCD_BUSY \subseteq ipcd THEN "th_msg"
                         ELSE "th_ret"]
    /\ UNCHANGED <<shim, hw_lock, wake, ih, cd, snd, dsp, calls, mbox>>

\* the panic offset is taken from the inbound word
ThreadDispatchOffsetFromIpcd ==
    /\ th.pc = "th_msg"
    /\ IF (th.ipcd \cap SOF_IPC_PANIC_MAGIC_MASK) = SOF_IPC_PANIC_MAGIC
       THEN /\ calls' = [calls EXCEPT !.panic =
                           Append(@, HSW_PANIC_OFFSET(th.ipcd) + MBOX_OFFSET)]
            /\ cd' = cd
       ELSE /\ calls' = [calls EXCEPT !.msgs_rx = @ + 1]
            /\ cd' = [cd EXCEPT !.pending = TRUE]
    /\ th' = [th EXCEPT !.pc = "th_ret"]
    /\ UNCHANGED <<shim, hw_lock, wake, ih, snd, dsp, mbox>>

\* the whole word is compared with the magic
ThreadDispatchWholeWord ==
    /\ th.pc = "th_msg"
    /\ IF th.ipcd = SOF_IPC_PANIC_MAGIC
       THEN /\ calls' = [calls EXCEPT !.panic =
                           Append(@, HSW_PANIC_OFFSET(th.ipcx) + MBOX_OFFSET)]
            /\ cd' = cd
       ELSE /\ calls' = [calls EXCEPT !.msgs_rx = @ + 1]
            /\ cd' = [cd EXCEPT !.pending = TRUE]
    /\ th' = [th EXCEPT !.pc = "th_ret"]
    /\ UNCHANGED <<shim, hw_lock, wake, ih, snd, dsp, mbox>>

\* new message from DSP: snd_sof_dsp_panic(HSW_PANIC_OFFSET(ipcx) +
\* MBOX_OFFSET) on the magic, snd_sof_ipc_msgs_rx otherwise; the consumer
\* of a message owes one hsw_cmd_done
ThreadDispatch ==
    /\ th.pc = "th_msg"
    /\ IF (th.ipcd \cap SOF_IPC_PANIC_MAGIC_MASK) = SOF_IPC_PANIC_MAGIC
       THEN /\ calls' = [calls EXCEPT !.panic =
                           Append(@, HSW_PANIC_OFFSET(th.ipcx) + MBOX_OFFSET)]
            /\ cd' = cd
       ELSE /\ calls' = [calls EXCEPT !.msgs_rx = @ + 1]
            /\ cd' = [cd EXCEPT !.pending = TRUE]
    /\ th' = [th EXCEPT !.pc = "th_ret"]
    /\ UNCHANGED <<shim, hw_lock, wake, ih, snd, dsp, mbox>>

\* return IRQ_HANDLED
ThreadReturn ==
    /\ th.pc = "th_ret"
    /\ th' = [ThIdle EXCEPT !.ret = "IRQ_HANDLED"]
    /\ calls' = NoCalls
    /\ UNCHANGED <<shim, hw_lock, wake, ih, cd, snd, dsp, mbox>>

(* hsw_cmd_done *)

\* clear BUSY bit and set DONE bit: the read of update_bits_unlocked
CmdDoneIpcdRead ==
    /\ cd.pc = "idle"
    /\ cd.pending
    /\ cd' = [pc |-> "cd_ipcd_wr", old |-> shim["IPCD"], pending |-> FALSE]
    /\ UNCHANGED <<shim, hw_lock, wake, ih, th, snd, dsp, calls, mbox>>

\* the acknowledgement made by writing DONE as the whole register
CmdDoneIpcdWriteWholeRegister ==
    /\ cd.pc = "cd_ipcd_wr"
    /\ shim' = Latch([shim EXCEPT !["IPCD"] = SHIM_IPCD_DONE])
    /\ cd' = [cd EXCEPT !.old = {}, !.pc = "cd_imrx_rd"]
    /\ UNCHANGED <<hw_lock, wake, ih, th, snd, dsp, calls, mbox>>

\* clear BUSY bit and set DONE bit: the write
CmdDoneIpcdWrite ==
    /\ cd.pc = "cd_ipcd_wr"
    /\ LET mask == SHIM_IPCD_BUSY \cup SHIM_IPCD_DONE IN
         shim' = IF UpdateWrites(cd.old, mask, SHIM_IPCD_DONE)
                 THEN Latch([shim EXCEPT !["IPCD"] =
                                 UpdateBits(cd.old, mask, SHIM_IPCD_DONE)])
                 ELSE shim
    /\ cd' = [cd EXCEPT !.old = {}, !.pc = "cd_imrx_rd"]
    /\ UNCHANGED <<hw_lock, wake, ih, th, snd, dsp, calls, mbox>>

\* unmask busy interrupt: the read of update_bits_unlocked
CmdDoneImrxRead ==
    /\ cd.pc = "cd_imrx_rd"
    /\ cd' = [cd EXCEPT !.old = shim["IMRX"], !.pc = "cd_imrx_wr"]
    /\ UNCHANGED <<shim, hw_lock, wake, ih, th, snd, dsp, calls, mbox>>

\* unmask busy interrupt: the write; return 0
CmdDoneImrxWrite ==
    /\ cd.pc = "cd_imrx_wr"
    /\ shim' = IF UpdateWrites(cd.old, SHIM_IMRX_BUSY, {})
               THEN [shim EXCEPT !["IMRX"] =
                         UpdateBits(cd.old, SHIM_IMRX_BUSY, {})]
               ELSE shim
    /\ cd' = [cd EXCEPT !.old = {}, !.pc = "idle"]
    /\ UNCHANGED <<hw_lock, wake, ih, th, snd, dsp, calls, mbox>>

(* hsw_is_ready, hsw_send_msg *)

\* the sender posts whatever the outbound register holds
IsReadyIgnoresBusy ==
    /\ snd.pc = "idle"
    /\ snd.posts + dsp.notifies < MaxMsgs
    /\ snd' = [snd EXCEPT !.pc = "snd_box", !.ready = TRUE,
                          !.posts = @ + 1, !.ret = <<>>]
    /\ UNCHANGED <<shim, hw_lock, wake, ih, th, cd, dsp, calls, mbox>>

\* val = snd_sof_dsp_read(SHIM_IPCX); return !(val & SHIM_IPCX_BUSY);
\* a ready sender goes on to post
IsReady ==
    /\ snd.pc = "idle"
    /\ snd.posts + dsp.notifies < MaxMsgs
    /\ LET ready == ~(SHIM_IPCX_BUSY \subseteq shim["IPCX"]) IN
         snd' = [snd EXCEPT !.pc = IF ready THEN "snd_box" ELSE "idle",
                            !.ready = ready,
                            !.posts = IF ready THEN @ + 1 ELSE @,
                            !.ret = IF ready THEN <<>> ELSE @]
    /\ UNCHANGED <<shim, hw_lock, wake, ih, th, cd, dsp, calls, mbox>>

\* hsw_mailbox_write(host_box.offset, msg->msg_data, msg->msg_size)
SendMsgMailbox ==
    /\ snd.pc = "snd_box"
    /\ \E w \in MsgWords : mbox' = CopyInto(mbox, U32ToBytes(w))
    /\ snd' = [snd EXCEPT !.pc = "snd_bell"]
    /\ UNCHANGED <<shim, hw_lock, wake, ih, th, cd, dsp, calls>>

\* snd_sof_dsp_write(SHIM_IPCX, SHIM_IPCX_BUSY); return 0
SendMsgDoorbell ==
    /\ snd.pc = "snd_bell"
    /\ shim' = Latch([shim EXCEPT !["IPCX"] = SHIM_IPCX_BUSY])
    /\ snd' = [snd EXCEPT !.pc = "idle", !.ready = FALSE, !.ret = <<0>>]
    /\ UNCHANGED <<hw_lock, wake, ih, th, cd, dsp, calls, mbox>>

(* the DSP *)

\* the DSP answers a posted message: reply header in the host box, BUSY
\* cleared and DONE set in the outbound command register
DspReply ==
    /\ SHIM_IPCX_BUSY \subseteq shim["IPCX"]
    /\ \E h \in ReplyHdrs : mbox' = CopyInto(mbox, U32ToBytes(h))
    /\ \E low \in IpcxLow :
         shim' = Latch([shim EXCEPT !["IPCX"] = SHIM_IPCX_DONE \cup low])
    /\ UNCHANGED <<hw_lock, wake, ih, th, cd, snd, dsp, calls>>

\* the DSP posts a message of its own once the previous one was taken
DspNotify ==
    /\ ~(SHIM_IPCD_BUSY \subseteq shim["IPCD"])
    /\ snd.posts + dsp.notifies < MaxMsgs
    /\ \E p \in IpcdPayloads :
         shim' = Latch([shim EXCEPT !["IPCD"] = SHIM_IPCD_BUSY \cup p])
    /\ dsp' = [dsp EXCEPT !.notifies = @ + 1]
    /\ UNCHANGED <<hw_lock, wake, ih, th, cd, snd, calls, mbox>>

IrqRest == <<pci, bringVars, boxes, msg, gr, blockVars, winVars>>

IrqNext ==
    \/ IrqEnter /\ UNCHANGED IrqRest
    \/ IrqReadIsr /\ UNCHANGED IrqRest
    \/ IrqMaskDoneRead /\ UNCHANGED IrqRest
    \/ IrqMaskDoneWrite /\ UNCHANGED IrqRest
    \/ IrqMaskBusyRead /\ UNCHANGED IrqRest
    \/ IrqMaskBusyWrite /\ UNCHANGED IrqRest
    \/ IrqUnlock /\ UNCHANGED IrqRest
    \/ IrqReturn /\ UNCHANGED IrqRest
    \/ ThreadReadIpcx /\ UNCHANGED IrqRest
    \/ ThreadReply /\ UNCHANGED IrqRest
    \/ ThreadClearDoneRead /\ UNCHANGED IrqRest
    \/ ThreadClearDoneWrite /\ UNCHANGED IrqRest
    \/ ThreadUnmaskDoneRead /\ UNCHANGED IrqRest
    \/ ThreadUnmaskDoneWrite /\ UNCHANGED IrqRest
    \/ ThreadReadIpcd /\ UNCHANGED IrqRest
    \/ ThreadDispatch /\ UNCHANGED IrqRest
    \/ ThreadReturn /\ UNCHANGED IrqRest
    \/ CmdDoneIpcdRead /\ UNCHANGED IrqRest
    \/ CmdDoneIpcdWrite /\ UNCHANGED IrqRest
    \/ CmdDoneImrxRead /\ UNCHANGED IrqRest
    \/ CmdDoneImrxWrite /\ UNCHANGED IrqRest
    \/ IsReady /\ UNCHANGED IrqRest
    \/ SendMsgMailbox /\ UNCHANGED IrqRest
    \/ SendMsgDoorbell /\ UNCHANGED IrqRest
    \/ DspReply /\ UNCHANGED IrqRest
    \/ DspNotify /\ UNCHANGED IrqRest

\* an attached device with both interrupt sources unmasked and idle
IrqSpecInit ==
    /\ Attached /\ pci = PciAllClear
    /\ shim = ShimAllClear
    /\ boxes = MailboxInit(Boxes0, MBOX_OFFSET, MBOX_SIZE, 0, 0)
    /\ IrqInit /\ BlockIdle /\ WinIdle

SpecIrq == IrqSpecInit /\ [][IrqNext]_vars

(* Claims on the interrupt path *)

\* the status value the handler read asserts neither DONE nor BUSY
NeitherAsserted == ih.isr \cap (SHIM_ISRX_DONE \cup SHIM_ISRX_BUSY) = {}

\* C5: a handler that read a status with neither DONE nor BUSY returns
\* IRQ_NONE, has written nothing to the interrupt-mask register, holds
\* the hardware lock no more, and its return does not wake the thread
C5_NotMine ==
    [][(ih.pc = "ih_ret" /\ NeitherAsserted) =>
          /\ ih.ret = "IRQ_NONE"
          /\ ih.updates = <<>>
          /\ hw_lock = "free"
          /\ (ih'.pc = "idle" => (wake' = wake /\ shim' = shim))]_vars

\* a handler about to return IRQ_NONE while a source is still masked
\* and no thread run is pending
C5_Witness ==
    /\ ih.pc = "ih_ret"
    /\ NeitherAsserted
    /\ ih.reads = 1
    /\ shim["IMRX"] # {}
    /\ ~wake

\* bits 12..27 of the inbound word, and the fault pattern 0xdead in them
MagicField(w) == {b \in w : b >= 12 /\ b <= 27}
FaultMagic == {12, 14, 15, 17, 19, 21, 22, 23, 24, 26, 27}
BusyRead == 31 \in th.ipcd

\* C6: a thread that read the inbound register with BUSY set has called
\* the panic path once and the message consumer not at all when the magic
\* field holds the fault pattern, and the message consumer once and the
\* panic path not at all when it does not
C6_PanicOrMessage ==
    (th.pc = "th_ret" /\ BusyRead) =>
        IF MagicField(th.ipcd) = FaultMagic
        THEN Len(calls.panic) = 1 /\ calls.msgs_rx = 0
        ELSE Len(calls.panic) = 0 /\ calls.msgs_rx = 1

\* a panic notification with bits set below and above the magic field
C6_Witness ==
    /\ th.pc = "th_ret"
    /\ BusyRead
    /\ MagicField(th.ipcd) = FaultMagic
    /\ {2, 28, 30} \subseteq th.ipcd
    /\ Len(calls.panic) = 1

\* the mask bits of the sources asserted in the status the handler read
AssertedMask ==
    (IF SHIM_ISRX_DONE \subseteq ih.isr THEN SHIM_IMRX_DONE ELSE {})
    \cup (IF SHIM_ISRX_BUSY \subseteq ih.isr THEN SHIM_IMRX_BUSY ELSE {})

\* the handler takes a step
HandlerSteps == ih'.pc # ih.pc

\* the mask bits of the sources not asserted in the status it read
NotAssertedMask == (SHIM_IMRX_DONE \cup SHIM_IMRX_BUSY) \ AssertedMask

\* C13: the handler reads the status register once, under the hardware
\* lock; its update for an asserted source leaves the bit of that source set
\* in the interrupt-mask register and the bit of a source that is not
\* asserted as it was; it reads no mailbox; it returns IRQ_WAKE_THREAD if
\* DONE or BUSY was asserted and IRQ_NONE if not, and the lock is released
\* when it returns.
C13_Original ==
    [][/\ (HandlerSteps /\ ih.pc = "ih_isr") => hw_lock = "ih" /\ ih.reads = 0
       /\ (HandlerSteps /\ ih.pc = "ih_done_wr") =>
            /\ SHIM_IMRX_DONE \subseteq shim'["IMRX"]
            /\ shim'["IMRX"] \cap NotAssertedMask =
                 shim["IMRX"] \cap NotAssertedMask
       /\ (HandlerSteps /\ ih.pc = "ih_busy_wr") =>
            /\ SHIM_IMRX_BUSY \subseteq shim'["IMRX"]
            /\ shim'["IMRX"] \cap NotAssertedMask =
                 shim["IMRX"] \cap NotAssertedMask
       /\ HandlerSteps => mbox' = mbox /\ calls' = calls
       /\ (HandlerSteps /\ ih.pc = "ih_ret") =>
            /\ ih.reads = 1
            /\ hw_lock = "free"
            /\ ih.ret = IF AssertedMask # {} THEN "IRQ_WAKE_THREAD"
                        ELSE "IRQ_NONE"
      ]_vars

\* what holds of the handler whatever the other writers of the
\* interrupt-mask register do: it holds the hardware lock from its entry to
\* its unlock and reads the status register once, under the lock; it makes
\* one update of the interrupt-mask register per source asserted in that
\* status value, DONE before BUSY, and none for a source that is not
\* asserted; the value each update produces is the value it read from the
\* interrupt-mask register with the bit of its source set and every other
\* bit as read; it returns IRQ_WAKE_THREAD if DONE or BUSY was asserted and
\* IRQ_NONE if not, with the lock released.
C13_HandlerMasks ==
    /\ ih.pc \in {"ih_isr", "ih_done_rd", "ih_done_wr", "ih_busy_rd",
                  "ih_busy_wr", "ih_unlock"} => hw_lock = "ih"
    /\ ih.pc \in {"idle", "ih_ret"} => hw_lock = "free"
    /\ ih.pc = "ih_isr" => ih.reads = 0
    /\ ih.pc \notin {"idle", "ih_isr"} => ih.reads = 1
    /\ ih.pc \in {"ih_unlock", "ih_ret"} =>
         /\ ih.ret = IF AssertedMask # {} THEN "IRQ_WAKE_THREAD" ELSE "IRQ_NONE"
         /\ Len(ih.updates) = Cardinality(AssertedMask)
         /\ \A k \in 1..Len(ih.updates) :
              LET bit == IF k = 1 /\ SHIM_IMRX_DONE \subseteq AssertedMask
                         THEN SHIM_IMRX_DONE ELSE SHIM_IMRX_BUSY
              IN ih.updates[k].new = ih.updates[k].old \cup bit

\* both sources were asserted, and the BUSY update found DONE unmasked
\* again by the thread
C13_Witness ==
    /\ ih.pc = "ih_ret"
    /\ AssertedMask = SHIM_IMRX_DONE \cup SHIM_IMRX_BUSY
    /\ ih.updates[2].old = {}
    /\ ih.ret = "IRQ_WAKE_THREAD"

\* the thread has read the outbound register with DONE set
DoneRead == th.pc # "idle" /\ SHIM_IPCX_DONE \subseteq th.ipcx
ReplySteps == <<"hdr", "reply", "clear", "unmask">>

\* C14: what the thread does for DONE is, in this order and each at most
\* once, the header read, its dispatch to snd_sof_ipc_reply, the clear of
\* DONE in the outbound register and the unmask of DONE; all four are done
\* before the inbound register is looked at, none is done when DONE was
\* read clear, and the value returned is IRQ_HANDLED.
C14_ReplyOrder ==
    /\ \E n \in 0..Len(ReplySteps) : th.trace = SubSeq(ReplySteps, 1, n)
    /\ Len(calls.reply) = (IF "reply" \in {th.trace[k] : k \in 1..Len(th.trace)}
                           THEN 1 ELSE 0)
    /\ (th.pc # "idle" /\ ~DoneRead) => th.trace = <<>>
    /\ (th.pc \in {"th_ipcd", "th_msg", "th_ret"} /\ DoneRead) =>
         th.trace = ReplySteps
    /\ th.pc = "th_unm_wr" => th.trace = SubSeq(ReplySteps, 1, 3)
    /\ th.ret \in {"none", "IRQ_HANDLED"}

\* a reply was handled and the thread is about to return
C14_Witness ==
    /\ th.pc = "th_ret"
    /\ DoneRead
    /\ th.trace = ReplySteps
    /\ calls.reply = <<17>>

\* the thread, hsw_cmd_done take a step
ThreadSteps == th'.pc # th.pc
CmdDoneSteps == cd'.pc # cd.pc
\* a register other than r changes
OthersChange(r) == \E q \in ShimRegs \ {r, "ISRX"} : shim'[q] # shim[q]

\* C15: no step of the thread takes the BUSY bit of the interrupt-mask
\* register from set to clear; hsw_cmd_done first clears BUSY and sets DONE
\* in the inbound command register, every other bit staying as it is, and
\* only then clears the BUSY bit of the interrupt-mask register, the DONE
\* bit staying as it is.
C15_Original ==
    [][/\ ThreadSteps =>
            ~(/\ SHIM_IMRX_BUSY \subseteq shim["IMRX"]
              /\ shim'["IMRX"] \cap SHIM_IMRX_BUSY = {})
       /\ (CmdDoneSteps /\ cd.pc = "cd_ipcd_wr") =>
            /\ cd'.pc = "cd_imrx_rd"
            /\ shim'["IPCD"] =
                 (shim["IPCD"] \ SHIM_IPCD_BUSY) \cup SHIM_IPCD_DONE
            /\ shim'["IMRX"] = shim["IMRX"]
       /\ (CmdDoneSteps /\ cd.pc = "cd_imrx_wr") =>
            /\ shim'["IMRX"] = shim["IMRX"] \ SHIM_IMRX_BUSY
            /\ shim'["IPCD"] = shim["IPCD"]
       /\ (CmdDoneSteps /\ cd.pc \notin {"cd_ipcd_wr", "cd_imrx_wr"}) =>
            shim' = shim
      ]_vars

\* what holds whatever the other writers do: the only write the thread
\* makes to the interrupt-mask register is the DONE unmask, and the value
\* it writes has BUSY as the thread read it.  hsw_cmd_done makes two
\* updates, in this order: the inbound command register gets BUSY cleared
\* and DONE set with every other bit as read, then the interrupt-mask
\* register gets BUSY cleared with every other bit, DONE included, as read.
C15_BusyUnmask ==
    [][/\ (ThreadSteps /\ th.pc # "th_unm_wr") => shim'["IMRX"] = shim["IMRX"]
       /\ (ThreadSteps /\ th.pc = "th_unm_wr") =>
            \/ shim' = shim
            \/ /\ shim'["IMRX"] \cap SHIM_IMRX_BUSY = th.old \cap SHIM_IMRX_BUSY
               /\ ~OthersChange("IMRX")
       /\ (CmdDoneSteps /\ cd.pc = "cd_ipcd_wr") =>
            /\ cd'.pc = "cd_imrx_rd"
            /\ \/ shim' = shim
               \/ /\ shim'["IPCD"] =
                       (cd.old \ SHIM_IPCD_BUSY) \cup SHIM_IPCD_DONE
                  /\ ~OthersChange("IPCD")
       /\ (CmdDoneSteps /\ cd.pc = "cd_imrx_wr") =>
            \/ shim' = shim
            \/ /\ shim'["IMRX"] = cd.old \ SHIM_IMRX_BUSY
               /\ ~OthersChange("IMRX")
       /\ (CmdDoneSteps /\ cd.pc \notin {"cd_ipcd_wr", "cd_imrx_wr"}) =>
            shim' = shim
      ]_vars

\* hsw_cmd_done has acknowledged a message that carried other bits and is
\* about to unmask BUSY while DONE is masked
C15_Witness ==
    /\ cd.pc = "cd_imrx_wr"
    /\ SHIM_IPCD_DONE \subseteq shim["IPCD"]
    /\ shim["IPCD"] \cap SHIM_IPCD_BUSY = {}
    /\ 2 \in shim["IPCD"]
    /\ cd.old = SHIM_IMRX_DONE \cup SHIM_IMRX_BUSY

\* the sender takes a step
SenderSteps == snd'.pc # snd.pc
\* the host box holds a complete message word
PayloadWritten == \E w \in MsgWords : MailboxRead(HdrLen) = U32ToBytes(w)

\* C16: hsw_send_msg writes the message into the host box and only then
\* sets BUSY in the outbound command register, so at the step that sets
\* BUSY the host box holds the whole message, and it returns 0.  With a
\* single sender that posts only after hsw_is_ready has read BUSY clear,
\* BUSY is clear at every step of the sender that writes the host box.
C16_PayloadBeforeBusy ==
    [][/\ (SenderSteps /\ snd.pc = "snd_box") =>
            /\ shim["IPCX"] \cap SHIM_IPCX_BUSY = {}
            /\ shim' = shim
            /\ snd'.pc = "snd_bell"
       /\ (SenderSteps /\ snd.pc = "snd_bell") =>
            /\ PayloadWritten
            /\ mbox' = mbox
            /\ shim["IPCX"] \cap SHIM_IPCX_BUSY = {}
            /\ SHIM_IPCX_BUSY \subseteq shim'["IPCX"]
            /\ snd'.ret = <<0>>
       /\ (mbox' # mbox /\ SHIM_IPCX_BUSY \subseteq shim["IPCX"]) =>
            snd' = snd
      ]_vars

\* the second message has been posted, over the reply to the first
C16_Witness ==
    /\ snd.pc = "idle"
    /\ snd.posts = 2
    /\ snd.ret = <<0>>
    /\ SHIM_IPCX_BUSY \subseteq shim["IPCX"]
    /\ PayloadWritten
    /\ calls.reply # <<>>

\* C17: the read-modify-write updates of the interrupt-mask register do
\* not overlap, so none is lost: the thread's DONE unmask and the
\* handler's DONE mask leave the BUSY bit of the register as it is, and
\* the BUSY unmask of hsw_cmd_done and the handler's BUSY mask leave the
\* DONE bit of the register as it is.
C17_NoLostUpdate ==
    [][/\ (ThreadSteps /\ th.pc = "th_unm_wr") =>
            shim'["IMRX"] \cap SHIM_IMRX_BUSY = shim["IMRX"] \cap SHIM_IMRX_BUSY
       /\ (HandlerSteps /\ ih.pc = "ih_done_wr") =>
            shim'["IMRX"] \cap SHIM_IMRX_BUSY = shim["IMRX"] \cap SHIM_IMRX_BUSY
       /\ (CmdDoneSteps /\ cd.pc = "cd_imrx_wr") =>
            shim'["IMRX"] \cap SHIM_IMRX_DONE = shim["IMRX"] \cap SHIM_IMRX_DONE
       /\ (HandlerSteps /\ ih.pc = "ih_busy_wr") =>
            shim'["IMRX"] \cap SHIM_IMRX_DONE = shim["IMRX"] \cap SHIM_IMRX_DONE
      ]_vars

\* the thread has handed a panic notification to snd_sof_dsp_panic
PanicHandled ==
    /\ th.pc = "th_ret"
    /\ BusyRead
    /\ MagicField(th.ipcd) = FaultMagic
\* bits 0..15 of a word, as a number
Low16(w) == Val({b \in w : b < 16})

\* C18: the offset handed to snd_sof_dsp_panic is the low 16 bits of the
\* inbound word that carried the magic, plus 0x7E000.
C18_Original ==
    PanicHandled => calls.panic = <<Low16(th.ipcd) + 516096>>

\* C18 with the register the code uses: the offset handed to
\* snd_sof_dsp_panic is the low 16 bits
\* of the outbound command register as the thread read it on entry, plus
\* 0x7E000, whatever the low bits of the inbound word are; nothing is
\* handed to it when the inbound word does not carry the magic.
C18_PanicOffset ==
    /\ PanicHandled => calls.panic = <<Low16(th.ipcx) + 516096>>
    /\ (th.pc = "th_ret" /\ ~PanicHandled) => calls.panic = <<>>

\* a panic notification whose low bits are 0x9204 was handled after a
\* reply, the outbound register holding 0x10 in its low bits
C18_Witness ==
    /\ PanicHandled
    /\ {b \in th.ipcd : b < 16} = {2, 9, 12, 14, 15}
    /\ {b \in th.ipcx : b < 16} = {4}
    /\ calls.panic = <<516112>>

\* the engine-0 and engine-1 all-channel bits of the DMA mode register
AllChannels == SHIM_HMDC_HDDA_E0_ALLCH \cup SHIM_HMDC_HDDA_E1_ALLCH
\* the stall bit goes from set to clear
StallCleared ==
    /\ SHIM_CSR_STALL \subseteq shim["CSR"]
    /\ shim'["CSR"] \cap SHIM_CSR_STALL = {}

\* C19: the stall bit of SHIM_CSR goes from set to clear only in the
\* second statement of hsw_run, when the engine-0 and engine-1
\* all-channel bits of SHIM_HMDC are clear; the first statement of hsw_run
\* clears those bits and leaves SHIM_CSR as it is, the second clears the
\* stall bit, leaves the reset bit and every other bit as they are, and
\* returns 0.
C19_StalledUntilRun ==
    [][/\ StallCleared =>
            /\ pc = "run_csr"
            /\ shim["HMDC"] \cap AllChannels = {}
       /\ (pc = "attached" /\ pc' = "run_csr") =>
            /\ shim'["CSR"] = shim["CSR"]
            /\ shim'["HMDC"] = shim["HMDC"] \ AllChannels
       /\ (pc = "run_csr" /\ pc' # pc) =>
            /\ shim'["CSR"] = shim["CSR"] \ SHIM_CSR_STALL
            /\ shim'["HMDC"] = shim["HMDC"]
            /\ op_ret' = [op |-> "run", val |-> 0]
      ]_vars

\* hsw_run has returned on a device that hsw_set_dsp_D0 left stalled with
\* the all-channel bits set
C19_Witness ==
    /\ pc = "attached"
    /\ d0_ret = <<0>>
    /\ "hmdc" \in steps
    /\ op_ret = [op |-> "run", val |-> 0]
    /\ shim["CSR"] \cap SHIM_CSR_STALL = {}
    /\ shim["HMDC"] \cap AllChannels = {}

\* C20: the doorbell write of hsw_send_msg leaves the DONE flag of the
\* outbound command register as it is: a DONE that is set when the message
\* is posted is still set after it.
C20_PostKeepsDone ==
    [][(SenderSteps /\ snd.pc = "snd_bell"
          /\ SHIM_IPCX_DONE \subseteq shim["IPCX"]) =>
         SHIM_IPCX_DONE \subseteq shim'["IPCX"]]_vars

\* nothing is left to run: the handler has returned, no thread run is
\* pending or under way, and hsw_cmd_done has been called and has returned
\* for every message handed to snd_sof_ipc_msgs_rx
Quiescent ==
    /\ ih.pc = "idle"
    /\ ~wake
    /\ th.pc = "idle"
    /\ ~cd.pending
    /\ cd.pc = "idle"

\* C21: once the thread has run for every IRQ_WAKE_THREAD and hsw_cmd_done
\* has run for every message handed to the consumer, no source the handler
\* masked is left masked: DONE and BUSY are both clear in the
\* interrupt-mask register, also after a panic notification.
C21_MaskedThenUnmasked ==
    Quiescent => shim["IMRX"] \cap (SHIM_IMRX_DONE \cup SHIM_IMRX_BUSY) = {}

----------------------------------------------------------------------------
(* Attach and detach of a device whose interrupt line is live *)

\* positions from which the next statement of the handler, of the thread
\* reads or writes through bar[HSW_DSP_BAR]
IhAccessPcs == {"ih_isr", "ih_done_rd", "ih_done_wr", "ih_busy_rd",
                "ih_busy_wr"}
ThAccessPcs == {"th_reply", "th_clr_rd", "th_clr_wr", "th_unm_rd",
                "th_unm_wr", "th_ipcd"}

\* an access of the handler through a region that was unmapped faults
\* (the other outcome, the access going through, is the step itself)
IrqFault ==
    /\ ih.pc \in IhAccessPcs
    /\ ~mapped[HSW_DSP_BAR]
    /\ ih' = [ih EXCEPT !.pc = "oops"]
    /\ UNCHANGED <<shim, hw_lock, wake, th, cd, snd, dsp, calls, mbox>>

\* the same for the thread; its first access is the read of SHIM_IPCX
ThreadFault ==
    /\ ~mapped[HSW_DSP_BAR]
    /\ \/ th.pc \in ThAccessPcs /\ wake' = wake
       \/ th.pc = "idle" /\ wake /\ wake' = FALSE
    /\ th' = [th EXCEPT !.pc = "oops"]
    /\ UNCHANGED <<shim, hw_lock, ih, cd, snd, dsp, calls, mbox>>

LifeInit ==
    /\ BringInit
    /\ IrqInit /\ BlockIdle /\ WinIdle
    /\ \E hot \in BOOLEAN :
         /\ shim = (IF hot THEN ShimAllSet ELSE ShimAllClear)
         /\ pci = IF hot THEN PciAllSet ELSE PciAllClear
    /\ boxes = Boxes0

\* hsw_probe with hsw_set_dsp_D0, then hsw_remove
AttachDetach ==
    \/ ProbeLpeRes \/ ProbeMapDsp \/ ProbePciRes \/ ProbeMapPci
    \/ ProbeGetIrq \/ ProbeRequestIrq \/ ProbeD0Ret \/ ProbeDma
    \/ ProbeIrqErr \/ ProbePciErr
    \/ D0GateOff \/ D0D3pgd \/ D0SetPs \/ D0Poll \/ D0Sleep
    \/ D0ClkSel \/ D0Stall \/ D0ClkCtl \/ D0GateOn \/ D0Pll \/ D0Pg
    \/ D0Csr2 \/ D0Hmdc \/ D0Imrx \/ D0Imrd \/ D0Ipcx \/ D0Ipcd
    \/ D0R80 \/ D0Re0
    \/ ResetAssert \/ ResetHold \/ ResetRelease
    \/ RemoveDsp \/ RemovePci \/ RemoveIrq

LifeNext ==
    \/ AttachDetach
    \/ IrqEnter /\ UNCHANGED IrqRest
    \/ IrqReadIsr /\ UNCHANGED IrqRest
    \/ IrqMaskDoneRead /\ UNCHANGED IrqRest
    \/ IrqMaskDoneWrite /\ UNCHANGED IrqRest
    \/ IrqMaskBusyRead /\ UNCHANGED IrqRest
    \/ IrqMaskBusyWrite /\ UNCHANGED IrqRest
    \/ IrqUnlock /\ UNCHANGED IrqRest
    \/ IrqReturn /\ UNCHANGED IrqRest
    \/ IrqFault /\ UNCHANGED IrqRest
    \/ ThreadReadIpcx /\ UNCHANGED IrqRest
    \/ ThreadReply /\ UNCHANGED IrqRest
    \/ ThreadClearDoneRead /\ UNCHANGED IrqRest
    \/ ThreadClearDoneWrite /\ UNCHANGED IrqRest
    \/ ThreadUnmaskDoneRead /\ UNCHANGED IrqRest
    \/ ThreadUnmaskDoneWrite /\ UNCHANGED IrqRest
    \/ ThreadReadIpcd /\ UNCHANGED IrqRest
    \/ ThreadDispatch /\ UNCHANGED IrqRest
    \/ ThreadReturn /\ UNCHANGED IrqRest
    \/ ThreadFault /\ UNCHANGED IrqRest

SpecLife == LifeInit /\ [][LifeNext]_vars

\* C22: every step of the handler and of the thread that reads or writes
\* a register or the mailbox is taken while bar[HSW_DSP_BAR] is mapped.
C22_LiveMapping ==
    [][/\ (HandlerSteps /\ ih.pc \in IhAccessPcs) => mapped[HSW_DSP_BAR]
       /\ (ThreadSteps /\ th.pc \in ThAccessPcs \cup {"idle"}) =>
            mapped[HSW_DSP_BAR]
      ]_vars

====
